---- MODULE Spec2Model ----
(***************************************************************************)
(* Semantic Layer Agent (src/src): the ChatSession of cli.py driving the   *)
(* LangGraph state machine of graph.py over the AgentState of state.py.    *)
(* One action per graph node and per ChatSession method.  Confidence is    *)
(* kept in hundredths (0.8 is 80).  A Python None is the empty tuple, a    *)
(* present value v is <<v>>.  A Python dict that is iterated in insertion  *)
(* order is a sequence of [key, val] records.                              *)
(***************************************************************************)
EXTENDS Naturals, Sequences, FiniteSets, TLC

VARIABLES
    backend,     \* what the Looker tools answer: models, explores per model
    session,     \* ChatSession.state: messages, project_schema, schema_loaded
    last_trace,  \* ChatSession.last_trace
    response,    \* what the last ChatSession.chat returned (None before)
    st,          \* the AgentState flowing through the graph during a turn
    pc,          \* "idle", the node about to run, or "END"
    faults,      \* tool calls that fail during this turn's discovery
    tool_calls,  \* adapter.invoke_tool calls made in this turn, in order
    invokes,     \* adapter.invoke calls made in this turn
    path,        \* nodes executed in this turn, in order
    upd_keys,    \* keys of the update the last executed node returned
    gate,        \* (confidence, needs_clarification) seen by confidence_check
    start_loaded,\* schema_loaded of the state handed to the graph
    disc_failed, \* discover_project returned an error in this turn
    first_schema,\* project_schema stored when the session first became loaded
    turns,       \* chat calls started so far
    reply_names, \* field names in the delegate's reply to select_fields
    last_reply,  \* the delegate's reply to the node that ran last, if it asked
    cleared,     \* clear_history ran and no turn has ended since
    probe,       \* a function applied to drawn inputs: its input and result
    adapter,     \* SafeChainAdapter: tools loaded, agent cache, agent last served
    other,       \* a second chat call of the session in flight: its graph state
    proc,        \* LumiAgent.process: position and locals of the call in progress
    main,        \* agent.py main loop: history and the turn in progress
    deploy       \* LookMLDeployer: the deploy_lookml call in progress

vars == <<backend, session, last_trace, response, st, pc, faults, tool_calls,
          invokes, path, upd_keys, gate, start_loaded, disc_failed,
          first_schema, turns, reply_names, last_reply, cleared, probe,
          adapter, other, proc, main, deploy>>

-----------------------------------------------------------------------------
(* Bounds of the model                                                     *)

MaxTurns == 2
MaxModels == 2
MaxExplores == 2
MaxFaults == 1

-----------------------------------------------------------------------------
(* Optional values and dicts                                               *)

None == <<>>
Some(v) == <<v>>
IsNone(o) == Len(o) = 0
IsSome(o) == Len(o) = 1
Get(o) == o[1]

Range(s) == {s[i] : i \in 1..Len(s)}
SeqsUpTo(S, n) == UNION {[1..k -> S] : k \in 0..n}

DictKeys(d) == {d[i].key : i \in 1..Len(d)}
DictHas(d, k) == k \in DictKeys(d)
DictGet(d, k) == (CHOOSE i \in 1..Len(d) : d[i].key = k)
DictVal(d, k) == d[DictGet(d, k)].val
\* d[k] = v: an existing key keeps its position, a new key goes last
DictPut(d, k, v) ==
    IF DictHas(d, k)
    THEN [i \in 1..Len(d) |-> IF d[i].key = k THEN [key |-> k, val |-> v] ELSE d[i]]
    ELSE Append(d, [key |-> k, val |-> v])

-----------------------------------------------------------------------------
(* The Looker backend behind adapter.invoke_tool                           *)

ModelNames == {"sales", "finance"}
ExploreNames == {"orders", "users"}

DimsOf(e) ==
    IF e = "orders"
    THEN << [name |-> "region", type |-> "string"],
            [name |-> "status", type |-> "string"] >>
    ELSE << [name |-> "country", type |-> "string"] >>

MeasuresOf(e) ==
    IF e = "orders"
    THEN << [name |-> "total_sales", type |-> "sum"] >>
    ELSE << [name |-> "user_count", type |-> "count"] >>

\* explores of a model the backend does not list are never asked for
Backends ==
    { b \in [models : SeqsUpTo(ModelNames, MaxModels),
             explores : [ModelNames -> SeqsUpTo(ExploreNames, MaxExplores)]] :
        \A m \in ModelNames : m \notin Range(b.models) => b.explores[m] = <<>> }

CallModels == "get_models"
CallExplores(m) == "get_explores:" \o m
CallDimensions(m, e) == "get_dimensions:" \o m \o "." \o e
CallMeasures(m, e) == "get_measures:" \o m \o "." \o e

\* a failing call either raises or answers text that is not JSON
FaultKinds == {"throw", "garbled"}
RECURSIVE SubsetsUpTo(_, _)
SubsetsUpTo(S, n) ==
    IF n = 0 THEN {{}}
    ELSE LET smaller == SubsetsUpTo(S, n - 1)
         IN  smaller \cup {T \cup {x} : T \in smaller, x \in S}
FaultSets(calls) == SubsetsUpTo([call : calls, kind : FaultKinds], MaxFaults)

Throws(F, c) == [call |-> c, kind |-> "throw"] \in F
Garbled(F, c) == [call |-> c, kind |-> "garbled"] \in F

ToolErrorText == "tool call failed"

\* the tool's answer on the wire: JSON text
ToolAnswer(F, c, val) ==
    IF Garbled(F, c)
    THEN [tag |-> "str", valid |-> FALSE, val |-> <<>>]
    ELSE [tag |-> "str", valid |-> TRUE, val |-> val]

parse_result(result) ==
    IF result.tag = "none" THEN None
    ELSE IF result.tag = "list" THEN Some(result.val)
    ELSE IF result.valid THEN Some(result.val)
    ELSE None

\* Python's `x or []` on a parsed result
OrEmpty(o) == IF IsNone(o) THEN <<>> ELSE Get(o)

-----------------------------------------------------------------------------
(* AgentState and its reducer                                              *)

create_initial_state ==
    [ messages |-> <<>>,
      project_schema |-> None,
      schema_loaded |-> FALSE,
      current_query |-> None,
      intent |-> None,
      field_selection |-> None,
      confidence |-> 0,
      clarifying_questions |-> None,
      needs_clarification |-> FALSE,
      generated_sql |-> None,
      explanation_trace |-> <<>>,
      final_response |-> None,
      error |-> None ]

EmptyUpdate == <<>>

\* messages are merged by add_messages, every other key is overwritten
ApplyUpdate(s, u) ==
    [k \in DOMAIN s |->
        IF k \in DOMAIN u
        THEN IF k = "messages" THEN s[k] \o u[k] ELSE u[k]
        ELSE s[k]]

\* the explore key mutated: the model name is left out
ExploreKeyWithoutModel(m, e) == e

ExploreKey(m, e) == m \o "." \o e

-----------------------------------------------------------------------------
(* nodes/discover.py                                                       *)

\* one pass of the loop body over an explore (discover.py lines 64-108)
FetchExplore(F, m, e, acc) ==
    LET t1 == Append(acc.trace, <<"Explore", e>>)
        c1 == Append(acc.calls, CallDimensions(m, e))
    IN  IF Throws(F, CallDimensions(m, e))
        THEN [acc EXCEPT !.failed = TRUE, !.trace = t1, !.calls = c1]
        ELSE
        LET dimensions == OrEmpty(parse_result(ToolAnswer(F, CallDimensions(m, e), DimsOf(e))))
            c2 == Append(c1, CallMeasures(m, e))
        IN  IF Throws(F, CallMeasures(m, e))
            THEN [acc EXCEPT !.failed = TRUE, !.trace = t1, !.calls = c2]
            ELSE
            LET measures == OrEmpty(parse_result(ToolAnswer(F, CallMeasures(m, e), MeasuresOf(e))))
                t2 == Append(t1, <<"Counts", ToString(Len(dimensions)), ToString(Len(measures))>>)
                detail == [ model |-> m, name |-> e, label |-> e, description |-> "",
                            dimensions |-> dimensions, measures |-> measures ]
                summary == [ name |-> e, label |-> e, description |-> "",
                             dimension_count |-> Len(dimensions),
                             measure_count |-> Len(measures) ]
            IN  [acc EXCEPT !.trace = t2, !.calls = c2,
                            !.explores = DictPut(acc.explores, ExploreKey(m, e), detail),
                            !.model_explores = Append(acc.model_explores, summary)]

RECURSIVE FetchExplores(_, _, _, _, _)
FetchExplores(F, m, es, i, acc) ==
    IF acc.failed \/ i > Len(es) THEN acc
    ELSE FetchExplores(F, m, es, i + 1, FetchExplore(F, m, es[i], acc))

\* one pass of the loop body over a model (discover.py lines 49-114)
FetchModel(b, F, m, acc) ==
    LET t1 == Append(acc.trace, <<"Model", m>>)
        c1 == Append(acc.calls, CallExplores(m))
    IN  IF Throws(F, CallExplores(m))
        THEN [acc EXCEPT !.failed = TRUE, !.trace = t1, !.calls = c1]
        ELSE
        LET explores_data == OrEmpty(parse_result(ToolAnswer(F, CallExplores(m), b.explores[m])))
            a1 == FetchExplores(F, m, explores_data, 1,
                      [acc EXCEPT !.trace = t1, !.calls = c1, !.model_explores = <<>>])
        IN  IF a1.failed THEN a1
            ELSE [a1 EXCEPT !.models =
                     Append(a1.models, [name |-> m, label |-> m,
                                        explores |-> a1.model_explores])]

RECURSIVE FetchModels(_, _, _, _, _)
FetchModels(b, F, ms, i, acc) ==
    IF acc.failed \/ i > Len(ms) THEN acc
    ELSE FetchModels(b, F, ms, i + 1, FetchModel(b, F, ms[i], acc))

\* `if not models_data` (discover.py line 35), mutated: the check is left out
NoModelsNeverChecked(models_data) == FALSE

NoModels(models_data) == Len(models_data) = 0

\* the body of the node after the cache check (discover.py lines 27-128)
run_discovery(state, b, F) ==
    LET t0 == Append(state.explanation_trace, <<"Discovering project schema">>)
    IN  IF Throws(F, CallModels)
        THEN [update |-> [ error |-> Some("Schema discovery failed: " \o ToolErrorText),
                           explanation_trace |-> Append(t0, <<"Error", ToolErrorText>>) ],
              calls |-> <<CallModels>>]
        ELSE
        LET models_data == OrEmpty(parse_result(ToolAnswer(F, CallModels, b.models)))
        IN  IF NoModels(models_data)
            THEN [update |-> [ error |-> Some("No models found in Looker"),
                               explanation_trace |-> Append(t0, <<"No models found">>) ],
                  calls |-> <<CallModels>>]
            ELSE
            LET acc == FetchModels(b, F, models_data, 1,
                         [ failed |-> FALSE,
                           trace |-> Append(t0, <<"Found models", ToString(Len(models_data))>>),
                           calls |-> <<CallModels>>,
                           models |-> <<>>, explores |-> <<>>, model_explores |-> <<>> ])
            IN  IF acc.failed
                THEN [update |-> [ error |-> Some("Schema discovery failed: " \o ToolErrorText),
                                   explanation_trace |->
                                       Append(acc.trace, <<"Error", ToolErrorText>>) ],
                      calls |-> acc.calls]
                ELSE [update |-> [ project_schema |->
                                       Some([models |-> acc.models, explores |-> acc.explores]),
                                   schema_loaded |-> TRUE,
                                   explanation_trace |->
                                       Append(acc.trace, <<"Schema discovery complete">>) ],
                      calls |-> acc.calls]

\* the node mutated: the cache check of lines 23-25 is left out
discover_without_cache_check(state, b, F) == run_discovery(state, b, F)

\* the node's update and the tool calls it made
discover_project_node(state, b, F) ==
    IF state.schema_loaded
    THEN [update |-> EmptyUpdate, calls |-> <<>>]
    ELSE run_discovery(state, b, F)

-----------------------------------------------------------------------------
(* The reasoning delegate behind adapter.invoke                            *)
(* A reply either raises or carries content: a fenced ```json block, bare  *)
(* JSON, or free text; `valid` says whether json.loads accepts it, `obj`   *)
(* is the decoded object (a missing key is None), `words` are the keywords *)
(* the text contains.                                                      *)

Intents == {"query", "schema_overview", "explore_details", "field_explain", "follow_up"}
LLMConf == {79, 80}
Pct(c) == ToString(c) \o "%"

Raised == [raised |-> TRUE]
Json(obj) == [raised |-> FALSE,
              content |-> [fmt |-> "fenced", valid |-> TRUE, obj |-> obj, words |-> {}]]
Text(words) == [raised |-> FALSE,
                content |-> [fmt |-> "text", valid |-> FALSE, obj |-> <<>>, words |-> words]]

\* json.loads of the fenced block, else of the whole content
JsonDecodes(content) == content.fmt \in {"fenced", "bare"} /\ content.valid

\* dict.get(key, default)
GetOr(o, default) == IF IsNone(o) THEN default ELSE Get(o)

-----------------------------------------------------------------------------
(* nodes/classify.py                                                       *)

parse_classification(content) ==
    IF JsonDecodes(content)
    THEN content.obj
    ELSE IF "schema_overview" \in content.words \/ "what data" \in content.words
         THEN [intent |-> Some("schema_overview"), confidence |-> Some(60), reasoning |-> None]
    ELSE IF "explore_details" \in content.words \/ "tell me about" \in content.words
         THEN [intent |-> Some("explore_details"), confidence |-> Some(60), reasoning |-> None]
    ELSE IF "field_explain" \in content.words \/ "what is" \in content.words
         THEN [intent |-> Some("field_explain"), confidence |-> Some(60), reasoning |-> None]
    ELSE IF "follow_up" \in content.words \/ "filter" \in content.words
         THEN [intent |-> Some("follow_up"), confidence |-> Some(60), reasoning |-> None]
    ELSE [intent |-> Some("query"), confidence |-> Some(50), reasoning |-> None]

\* the last message of role user, None if there is none
LastUserMessage(messages) ==
    LET idx == {i \in 1..Len(messages) : messages[i].role = "user"}
    IN  IF idx = {} THEN None
        ELSE Some(messages[CHOOSE i \in idx : \A j \in idx : j <= i].content)

classify_intent_node(state, reply) ==
    IF Len(state.messages) = 0
    THEN [update |-> [error |-> Some("No messages to classify")], invoked |-> FALSE]
    ELSE IF IsNone(LastUserMessage(state.messages))
    THEN [update |-> [error |-> Some("No user message found")], invoked |-> FALSE]
    ELSE
    LET last_message == Get(LastUserMessage(state.messages))
        t0 == Append(state.explanation_trace, <<"Classifying intent for", last_message>>)
    IN  IF reply.raised
        THEN [update |-> [ intent |-> Some("query"),
                           current_query |-> Some(last_message),
                           confidence |-> 50,
                           explanation_trace |->
                               Append(t0, <<"Classification error", ToolErrorText>>),
                           error |-> Some(ToolErrorText) ],
              invoked |-> TRUE]
        ELSE
        LET classification == parse_classification(reply.content)
            intent == GetOr(classification.intent, "query")
            confidence == GetOr(classification.confidence, 50)
            reasoning == GetOr(classification.reasoning, "")
        IN  [update |-> [ intent |-> Some(intent),
                          current_query |-> Some(last_message),
                          confidence |-> confidence,
                          explanation_trace |->
                              t0 \o << <<"Intent", intent, Pct(confidence)>>,
                                       <<"Reasoning", reasoning>> >> ],
             invoked |-> TRUE]

-----------------------------------------------------------------------------
(* graph.py: routing after classify_intent                                 *)

\* the routing function mutated: a set error is not looked at
route_by_intent_ignoring_error(state) ==
    IF IsSome(state.intent) /\ Get(state.intent) \in Intents
    THEN Get(state.intent)
    ELSE "query"

route_by_intent(state) ==
    IF IsSome(state.error) THEN "query"
    ELSE IF IsSome(state.intent) /\ Get(state.intent) \in Intents
         THEN Get(state.intent)
         ELSE "query"

\* the edge table mutated: a field question is sent back to the classifier
IntentEdgeReclassify(key) ==
    IF key \in {"query", "follow_up"} THEN "select_model"
    ELSE IF key \in {"schema_overview", "explore_details"} THEN "schema_explore"
    ELSE "classify_intent"

IntentEdge(key) ==
    IF key \in {"query", "follow_up"} THEN "select_model"
    ELSE IF key \in {"schema_overview", "explore_details"} THEN "schema_explore"
    ELSE "field_explain"

-----------------------------------------------------------------------------
(* nodes/select_model.py                                                   *)

GenericModelQuestion == "Could you tell me more about what data you're looking for?"

parse_selection(content) ==
    IF JsonDecodes(content)
    THEN content.obj
    ELSE [ model |-> None, explore |-> None, confidence |-> Some(0),
           reasoning |-> Some("Could not parse model selection response"),
           clarifying_questions |-> None ]

\* `clarifying_questions or [...]` mutated: the generic question is left out
QuestionsAsGiven(questions) == questions

\* `clarifying_questions or [generic]` (select_model.py lines 65-67)
QuestionsOrGeneric(questions) ==
    IF Len(questions) > 0 THEN questions ELSE <<GenericModelQuestion>>

\* Python truthiness of an optional string
Truthy(o) == IsSome(o) /\ Get(o) # ""

select_model_node(state, reply) ==
    IF IsNone(state.project_schema)
    THEN [update |-> [error |-> Some("Schema not loaded")], invoked |-> FALSE]
    ELSE IF ~Truthy(state.current_query)
    THEN [update |-> [error |-> Some("No query to process")], invoked |-> FALSE]
    ELSE
    LET t0 == Append(state.explanation_trace, <<"Selecting best model">>)
    IN  IF reply.raised
        THEN [update |-> [ error |-> Some(ToolErrorText),
                           explanation_trace |->
                               Append(t0, <<"Model selection error", ToolErrorText>>) ],
              invoked |-> TRUE]
        ELSE
        LET selection == parse_selection(reply.content)
            confidence == GetOr(selection.confidence, 50)
            reasoning == GetOr(selection.reasoning, "")
        IN  IF ~Truthy(selection.model) \/ ~Truthy(selection.explore)
            THEN LET questions == GetOr(selection.clarifying_questions, <<>>)
                 IN  [update |-> [ confidence |-> 0,
                                   needs_clarification |-> TRUE,
                                   clarifying_questions |->
                                       Some(QuestionsOrGeneric(questions)),
                                   explanation_trace |->
                                       t0 \o << <<"Couldn't determine the right model">>,
                                                <<"Reason", reasoning>> >> ],
                      invoked |-> TRUE]
            ELSE [update |-> [ field_selection |->
                                   Some([ model |-> Get(selection.model),
                                          explore |-> Get(selection.explore),
                                          dimensions |-> <<>>,
                                          measures |-> <<>>,
                                          filters |-> <<>> ]),
                               confidence |-> confidence,
                               explanation_trace |->
                                   t0 \o << <<"Selected",
                                              ExploreKey(Get(selection.model),
                                                         Get(selection.explore))>>,
                                            <<"Confidence", Pct(confidence)>>,
                                            <<"Reason", reasoning>> >> ],
                  invoked |-> TRUE]

-----------------------------------------------------------------------------
(* nodes/select_fields.py                                                  *)

\* the fallback mutated: a reply that does not parse is given confidence 0.8
parse_field_selection_trusting(content) ==
    IF JsonDecodes(content)
    THEN content.obj
    ELSE [ dimensions |-> Some(<<>>), measures |-> Some(<<>>), filters |-> Some(<<>>),
           confidence |-> Some(80), field_mapping |-> None,
           reasoning |-> Some("Could not parse field selection response"),
           uncertain_terms |-> None, clarifying_questions |-> None ]

parse_field_selection(content) ==
    IF JsonDecodes(content)
    THEN content.obj
    ELSE [ dimensions |-> Some(<<>>), measures |-> Some(<<>>), filters |-> Some(<<>>),
           confidence |-> Some(0), field_mapping |-> None,
           reasoning |-> Some("Could not parse field selection response"),
           uncertain_terms |-> None, clarifying_questions |-> None ]

\* a dict rendered into one trace line: key, value, key, value, ...
RECURSIVE FlattenDict(_)
FlattenDict(d) ==
    IF Len(d) = 0 THEN <<>> ELSE <<d[1].key, d[1].val>> \o FlattenDict(Tail(d))

MappingLines(d) == [i \in 1..Len(d) |-> <<"Maps", d[i].key, d[i].val>>]

SchemaExplores(state) == Get(state.project_schema).explores

\* the merge mutated: the selection is rebuilt from the reply, which names
\* no model and no explore
updated_selection_from_reply(field_selection, dims, measures, filters) ==
    [ model |-> "", explore |-> "",
      dimensions |-> dims, measures |-> measures, filters |-> filters ]

\* `{**field_selection, "dimensions": ..., "measures": ..., "filters": ...}`
updated_selection(field_selection, dims, measures, filters) ==
    [field_selection EXCEPT !.dimensions = dims,
                            !.measures = measures,
                            !.filters = filters]

select_fields_node(state, reply) ==
    IF IsNone(state.project_schema) \/ IsNone(state.field_selection)
    THEN [update |-> [error |-> Some("Schema or model selection missing")], invoked |-> FALSE]
    ELSE
    LET field_selection == Get(state.field_selection)
        explore_key == ExploreKey(field_selection.model, field_selection.explore)
    IN  IF ~DictHas(SchemaExplores(state), explore_key)
        THEN [update |-> [error |-> Some("Explore not found: " \o explore_key)],
              invoked |-> FALSE]
        ELSE
        LET t0 == Append(state.explanation_trace, <<"Mapping your question to data fields">>)
        IN  IF reply.raised
            THEN [update |-> [ error |-> Some(ToolErrorText),
                               explanation_trace |->
                                   Append(t0, <<"Field selection error", ToolErrorText>>) ],
                  invoked |-> TRUE]
            ELSE
            LET selection == parse_field_selection(reply.content)
                selected_dims == GetOr(selection.dimensions, <<>>)
                selected_measures == GetOr(selection.measures, <<>>)
                selected_filters == GetOr(selection.filters, <<>>)
                confidence == GetOr(selection.confidence, 50)
                field_mapping == GetOr(selection.field_mapping, <<>>)
                uncertain_terms == GetOr(selection.uncertain_terms, <<>>)
                clarifying_questions == GetOr(selection.clarifying_questions, <<>>)
                t1 == Append(t0, <<"Field mapping">>) \o MappingLines(field_mapping)
                        \o << <<"Dimensions">> \o selected_dims,
                              <<"Measures">> \o selected_measures >>
                t2 == IF Len(selected_filters) > 0
                      THEN Append(t1, <<"Filters">> \o FlattenDict(selected_filters))
                      ELSE t1
                t3 == Append(t2, <<"Confidence", Pct(confidence)>>)
                t4 == IF Len(uncertain_terms) > 0 \/ Len(clarifying_questions) > 0
                      THEN Append(t3, <<"Uncertain about">> \o uncertain_terms)
                      ELSE t3
            IN  [update |-> [ field_selection |->
                                  Some(updated_selection(field_selection, selected_dims,
                                                         selected_measures, selected_filters)),
                              confidence |-> confidence,
                              needs_clarification |-> Len(clarifying_questions) > 0,
                              clarifying_questions |->
                                  IF Len(clarifying_questions) > 0
                                  THEN Some(clarifying_questions) ELSE None,
                              explanation_trace |-> t4 ],
                 invoked |-> TRUE]

-----------------------------------------------------------------------------
(* nodes/confidence.py                                                     *)

ConfidenceThreshold == 80

\* the node mutated: the trace is started anew instead of copied from the state
confidence_check_fresh_trace(state) ==
    IF state.needs_clarification \/ state.confidence < ConfidenceThreshold
    THEN [ needs_clarification |-> TRUE,
           explanation_trace |->
               <<<<"Confidence below threshold", Pct(state.confidence)>>>> ]
    ELSE [ needs_clarification |-> FALSE,
           explanation_trace |->
               <<<<"Confidence sufficient", Pct(state.confidence)>>>> ]

\* the node mutated: the flag is recomputed from the confidence alone
confidence_check_dropping_flag(state) ==
    IF state.confidence < ConfidenceThreshold
    THEN [ needs_clarification |-> TRUE,
           explanation_trace |->
               Append(state.explanation_trace,
                      <<"Confidence below threshold", Pct(state.confidence)>>) ]
    ELSE [ needs_clarification |-> FALSE,
           explanation_trace |->
               Append(state.explanation_trace,
                      <<"Confidence sufficient", Pct(state.confidence)>>) ]

confidence_check_node(state) ==
    IF state.needs_clarification \/ state.confidence < ConfidenceThreshold
    THEN [ needs_clarification |-> TRUE,
           explanation_trace |->
               Append(state.explanation_trace,
                      <<"Confidence below threshold", Pct(state.confidence)>>) ]
    ELSE [ needs_clarification |-> FALSE,
           explanation_trace |->
               Append(state.explanation_trace,
                      <<"Confidence sufficient", Pct(state.confidence)>>) ]

\* the routing function mutated: the needs_clarification flag is not read
route_by_confidence_only(state) ==
    IF state.confidence >= ConfidenceThreshold THEN "high" ELSE "low"

\* the routing function mutated: the threshold itself is routed low
route_by_confidence_strict(state) ==
    IF state.needs_clarification THEN "low"
    ELSE IF state.confidence > ConfidenceThreshold THEN "high" ELSE "low"

route_by_confidence(state) ==
    IF state.needs_clarification THEN "low"
    ELSE IF state.confidence >= ConfidenceThreshold THEN "high" ELSE "low"

\* the edges after confidence_check mutated: low goes straight to format_response
ConfidenceEdgePastClarify(key) ==
    IF key = "high" THEN "generate_sql" ELSE "format_response"

ConfidenceEdge(key) == IF key = "high" THEN "generate_sql" ELSE "ask_clarify"

-----------------------------------------------------------------------------
(* nodes/clarify.py: a response is the list of lines joined by newlines    *)

GenericClarifyQuestion == "Could you provide more details about what you're looking for?"

\* `if not questions` mutated: no generic question is put in
QuestionsToAskAsGiven(given) == given

\* `if not questions: questions = [generic]` (clarify.py lines 16-19)
QuestionsToAsk(given) ==
    IF Len(given) = 0 THEN <<GenericClarifyQuestion>> ELSE given

ask_clarify_node(state) ==
    LET given == GetOr(state.clarifying_questions, <<>>)
        questions == QuestionsToAsk(given)
        bullets == [i \in 1..Len(questions) |-> <<"Bullet", questions[i]>>]
        head == << "I want to make sure I understand your question correctly.", "" >>
        body == IF Len(questions) = 1
                THEN <<questions[1]>>
                ELSE <<"I have a few questions:">>
                     \o [i \in 1..Len(questions) |->
                            "  " \o ToString(i) \o ". " \o questions[i]]
    IN  [ final_response |-> Some(head \o body),
          explanation_trace |->
              Append(state.explanation_trace, <<"Asking for clarification">>) \o bullets ]

-----------------------------------------------------------------------------
(* User utterances.  ExtractFieldName(q) is what _extract_field_name       *)
(* leaves of it: the query in lower case, the question patterns and "?"    *)
(* replaced by a blank, the stop words dropped, the rest joined by blanks. *)

Utterances == {"What data is available?", "Show me total sales by region"}

ExtractFieldName(q) ==
    CASE q = "Show me total sales by region" -> "show me total sales by region"
      [] q = "What data is available?" -> "what data available"
      [] q = "What is region?" -> "region"
      [] q = "What is Total Sales?" -> "total sales"
      [] q = "Explain the sales measure" -> "sales"
      [] q = "What does count mean?" -> "count"
      [] q = "Tell me about revenue" -> "revenue"
      [] q = "What is the field?" -> ""
      [] OTHER -> ""

-----------------------------------------------------------------------------
(* nodes/schema_explore.py                                                 *)

RECURSIVE Flatten(_)
Flatten(ss) == IF Len(ss) = 0 THEN <<>> ELSE ss[1] \o Flatten(Tail(ss))

format_schema_tree(schema) ==
    LET ExploreLines(x) ==
            << "Explore: " \o x.name,
               ToString(x.dimension_count) \o " dimensions | "
                   \o ToString(x.measure_count) \o " measures" >>
        ModelLines(m) ==
            <<"Model: " \o m.name>>
            \o Flatten([i \in 1..Len(m.explores) |-> ExploreLines(m.explores[i])])
    IN  <<"AVAILABLE DATA", "">>
        \o Flatten([i \in 1..Len(schema.models) |-> ModelLines(schema.models[i])])
        \o <<"", "Try asking:">>

\* Python's `a in b` on strings: a occurs in b as a substring
Contains(b, a) ==
    \E i \in 1..(Len(b) - Len(a) + 1) : SubSeq(b, i, i + Len(a) - 1) = a

UpperCase == "ABCDEFGHIJKLMNOPQRSTUVWXYZ"
LowerCase == "abcdefghijklmnopqrstuvwxyz"

\* str.lower, letter by letter
RECURSIVE lower(_)
lower(s) ==
    IF Len(s) = 0 THEN ""
    ELSE LET c == SubSeq(s, 1, 1)
             at == {i \in 1..Len(UpperCase) : SubSeq(UpperCase, i, i) = c}
         IN  (IF at = {} THEN c
              ELSE LET i == CHOOSE k \in at : TRUE IN SubSeq(LowerCase, i, i))
             \o lower(SubSeq(s, 2, Len(s)))

\* key.split(".")[-1]: the part of the key after its last dot
LastPart(key) ==
    LET dots == {i \in 1..Len(key) : SubSeq(key, i, i) = "."}
    IN  IF dots = {} THEN key
        ELSE SubSeq(key, (CHOOSE i \in dots : \A j \in dots : j <= i) + 1, Len(key))

extract_explore_name(query, schema) ==
    LET query_lower == lower(query)
        byExplore == {i \in 1..Len(schema.explores) :
                         Contains(query_lower, lower(LastPart(schema.explores[i].key)))}
        byModel == {i \in 1..Len(schema.models) :
                       /\ Contains(query_lower, lower(schema.models[i].name))
                       /\ Len(schema.models[i].explores) > 0}
        First(S) == CHOOSE i \in S : \A j \in S : i <= j
    IN  IF byExplore # {} THEN Some(LastPart(schema.explores[First(byExplore)].key))
        ELSE IF byModel # {}
             THEN Some(schema.models[First(byModel)].explores[1].name)
        ELSE None

\* `explore_name.lower() in key.lower()` (schema_explore.py line 100)
NameInKey(name, key) == Contains(lower(key), lower(name))

\* `dimensions[:15]`, `measures[:15]`
ShownFields == 15

\* the listing mutated: one field more is shown before the marker
FieldLinesOneMore(fields) ==
    [i \in 1..(IF Len(fields) < ShownFields + 1 THEN Len(fields) ELSE ShownFields + 1) |->
        fields[i].name \o " [" \o fields[i].type \o "]"]
    \o (IF Len(fields) > ShownFields
        THEN <<"... and " \o ToString(Len(fields) - ShownFields) \o " more">>
        ELSE <<>>)

\* the lines of one section: the first fields, then the count of the rest
FieldLines(fields) ==
    [i \in 1..(IF Len(fields) < ShownFields THEN Len(fields) ELSE ShownFields) |->
        fields[i].name \o " [" \o fields[i].type \o "]"]
    \o (IF Len(fields) > ShownFields
        THEN <<"... and " \o ToString(Len(fields) - ShownFields) \o " more">>
        ELSE <<>>)

format_explore_details(schema, explore_name) ==
    LET hits == {i \in 1..Len(schema.explores) :
                    NameInKey(explore_name, schema.explores[i].key)}
    IN  IF hits = {} THEN <<"Explore '" \o explore_name \o "' not found.">>
        ELSE
        LET d == schema.explores[CHOOSE i \in hits : \A j \in hits : i <= j].val
        IN  <<"EXPLORE: " \o d.name, "Model: " \o d.model, "", "DIMENSIONS">>
            \o FieldLines(d.dimensions)
            \o <<"", "MEASURES">>
            \o FieldLines(d.measures)
            \o <<"", "Example queries:">>
            \o (IF Len(d.dimensions) > 0 /\ Len(d.measures) > 0
                THEN <<"Show me " \o d.measures[1].name \o " by " \o d.dimensions[1].name>>
                ELSE <<>>)

schema_explore_node(state) ==
    IF IsNone(state.project_schema)
    THEN [error |-> Some("Schema not loaded")]
    ELSE
    LET schema == Get(state.project_schema)
        query == GetOr(state.current_query, "")
    IN  IF state.intent = Some("schema_overview")
        THEN [ final_response |-> Some(format_schema_tree(schema)),
               explanation_trace |->
                   Append(state.explanation_trace, <<"Showing schema overview">>) ]
        ELSE IF state.intent = Some("explore_details")
        THEN LET explore_name == extract_explore_name(query, schema)
             IN  IF IsSome(explore_name)
                 THEN [ final_response |->
                            Some(format_explore_details(schema, Get(explore_name))),
                        explanation_trace |->
                            Append(state.explanation_trace,
                                   <<"Showing details for", Get(explore_name)>>) ]
                 ELSE [ final_response |->
                            Some(format_schema_tree(schema)
                                 \o <<"", "Tip: Ask about a specific explore">>),
                        explanation_trace |->
                            Append(state.explanation_trace,
                                   <<"Showing schema (couldn't identify specific explore)">>) ]
        ELSE [ final_response |-> Some(format_schema_tree(schema)),
               explanation_trace |-> Append(state.explanation_trace, <<"Showing schema">>) ]

-----------------------------------------------------------------------------
(* nodes/field_explain.py                                                  *)

\* str.replace(" ", "_")
RECURSIVE BlanksToUnderscores(_)
BlanksToUnderscores(s) ==
    IF Len(s) = 0 THEN ""
    ELSE (IF SubSeq(s, 1, 1) = " " THEN "_" ELSE SubSeq(s, 1, 1))
         \o BlanksToUnderscores(SubSeq(s, 2, Len(s)))

\* str.endswith
EndsWith(name, term) ==
    /\ Len(term) <= Len(name)
    /\ SubSeq(name, Len(name) - Len(term) + 1, Len(name)) = term

\* `field_name_lower in name or name.endswith(field_name_lower)`
FieldMatches(term, name) ==
    LET n == lower(name)
    IN  Contains(n, term) \/ EndsWith(n, term)

\* a field is the object the backend answered; `name` is None where the
\* object has no "name" key
NameOf(f) == IF "name" \in DOMAIN f THEN Some(f.name) ELSE None

\* every field of every explore in iteration order, dimensions first, as
\* {**field, field_type, explore, model}
AllFields(schema) ==
    Flatten([i \in 1..Len(schema.explores) |->
        LET d == schema.explores[i].val
        IN  [j \in 1..Len(d.dimensions) |->
                [ name |-> NameOf(d.dimensions[j]), type |-> d.dimensions[j].type,
                  field_type |-> "dimension", explore |-> d.name, model |-> d.model ]]
            \o [j \in 1..Len(d.measures) |->
                [ name |-> NameOf(d.measures[j]), type |-> d.measures[j].type,
                  field_type |-> "measure", explore |-> d.name, model |-> d.model ]]])

find_field(schema, field_name) ==
    LET fs == AllFields(schema)
        field_name_lower == BlanksToUnderscores(lower(field_name))
        hits == {i \in 1..Len(fs) :
                    FieldMatches(field_name_lower, GetOr(fs[i].name, ""))}
    IN  IF hits = {} THEN None
        ELSE Some(fs[CHOOSE i \in hits : \A j \in hits : i <= j])

\* _format_field_not_found mutated: it answers the empty string
format_field_not_found_empty(field_name, schema) == <<>>

\* the first lines of _format_field_not_found (field_explain.py lines 156-180)
format_field_not_found(field_name, schema) ==
    <<"Field not found: " \o field_name, "",
      "I couldn't find a field matching that name.">>

field_explain_node(state) ==
    IF IsNone(state.project_schema)
    THEN [error |-> Some("Schema not loaded")]
    ELSE
    LET schema == Get(state.project_schema)
        field_name == ExtractFieldName(GetOr(state.current_query, ""))
        field_info == find_field(schema, field_name)
        t0 == Append(state.explanation_trace, <<"Looking up field information">>)
    IN  IF IsNone(field_info)
        THEN [ final_response |-> Some(format_field_not_found(field_name, schema)),
               explanation_trace |-> Append(t0, <<"Field not found", field_name>>) ]
        \* field_info['name'] of line 36 raises KeyError without the key
        ELSE IF IsNone(Get(field_info).name)
        THEN [ raises |-> "KeyError: 'name'" ]
        ELSE [ final_response |->
                   Some(<<(IF Get(field_info).field_type = "measure"
                           THEN "MEASURE: " ELSE "DIMENSION: ")
                              \o Get(Get(field_info).name),
                          "Explore: " \o Get(field_info).explore,
                          "Model: " \o Get(field_info).model>>),
               explanation_trace |->
                   Append(t0, <<"Found field", Get(Get(field_info).name)>>) ]

-----------------------------------------------------------------------------
(* nodes/generate_sql.py and nodes/format_response.py are imported by      *)
(* nodes/__init__.py but their code is not part of the sources; they are   *)
(* modelled from the specification: materialize once and surface a failure *)
(* as a user-facing message; format_response keeps the terminal node's     *)
(* response and turns a remaining error into a message unless discovery    *)
(* failed with no cached schema.                                           *)

generate_sql_node(state, outcome) ==
    IF outcome = "ok"
    THEN [ generated_sql |-> Some("SELECT ..."),
           final_response |-> Some(<<"SELECT ...">>),
           explanation_trace |-> Append(state.explanation_trace, <<"Generated SQL">>) ]
    ELSE [ final_response |-> Some(<<"Error: the query service failed">>),
           explanation_trace |-> Append(state.explanation_trace, <<"Query generation failed">>) ]

format_response_node(state) ==
    IF IsSome(state.final_response) THEN EmptyUpdate
    ELSE IF IsSome(state.error) /\ state.schema_loaded
         THEN [final_response |-> Some(<<"Error: " \o Get(state.error)>>)]
    ELSE EmptyUpdate

-----------------------------------------------------------------------------
(* Inputs: what the delegate and the query service may answer              *)

NoExplores == [m \in ModelNames |-> <<>>]

\* backends of the session-level specifications
SmallBackends ==
    { [models |-> <<>>, explores |-> NoExplores],
      [models |-> <<"sales">>,
       explores |-> [NoExplores EXCEPT !["sales"] = <<"orders", "users">>]],
      [models |-> <<"sales", "finance">>,
       explores |-> [NoExplores EXCEPT !["sales"] = <<"orders">>, !["finance"] = <<"users">>]] }

\* the calls a discovery of backend b can make
CallsOf(b) ==
    {CallModels} \cup {CallExplores(m) : m \in Range(b.models)}
    \cup UNION {{CallDimensions(m, e) : e \in Range(b.explores[m])} : m \in Range(b.models)}
    \cup UNION {{CallMeasures(m, e) : e \in Range(b.explores[m])} : m \in Range(b.models)}

RelevantFaults(b) == FaultSets(CallsOf(b))

\* the faults of the session-level specifications: a listing call raises
ListingFaults(b) ==
    SubsetsUpTo([call : {CallModels} \cup {CallExplores(m) : m \in Range(b.models)},
                 kind : {"throw"}], MaxFaults)

ClassifyObj(i, c) == [intent |-> i, confidence |-> c, reasoning |-> Some("because")]

ClassifyReplies ==
    {Raised}
    \cup {Json(ClassifyObj(i, Some(c))) :
            i \in {Some(x) : x \in Intents \cup {"smalltalk"}} \cup {None},
            c \in LLMConf}
    \cup {Json(ClassifyObj(Some("query"), None))}
    \cup {Text(w) : w \in {{}, {"what data"}, {"tell me about"}, {"what is"}, {"filter"}}}
    \cup {Json([intent |-> Some("schema_overview"), confidence |-> Some(60),
                 reasoning |-> None]),
           Json([intent |-> Some("query"), confidence |-> Some(50), reasoning |-> None])}

ClassifyRepliesBasic ==
    { Raised,
      Json(ClassifyObj(Some("query"), Some(80))),
      Json(ClassifyObj(Some("schema_overview"), Some(80))),
      Json(ClassifyObj(Some("field_explain"), Some(80))) }

SelectionObj(m, e, c, qs) ==
    [ model |-> m, explore |-> e, confidence |-> c, reasoning |-> Some("because"),
      clarifying_questions |-> qs ]

SelectModelReplies ==
    {Raised, Text({})}
    \cup {Json(SelectionObj(Some(m), Some(e), Some(c), None)) :
            m \in ModelNames, e \in ExploreNames \cup {"ghost"}, c \in LLMConf}
    \cup {Json(SelectionObj(Some("sales"), Some("orders"), None, None))}
    \cup {Json(SelectionObj(None, None, Some(0), qs)) :
            qs \in {None, Some(<<>>), Some(<<"Which area do you mean?">>)}}
    \cup {Json(SelectionObj(Some("sales"), None, Some(80), None))}

SelectModelRepliesBasic ==
    { Raised,
      Json(SelectionObj(Some("sales"), Some("orders"), Some(80), None)),
      Json(SelectionObj(None, None, Some(0), None)) }

FieldsObj(ds, ms, fs, c, ut, qs) ==
    [ dimensions |-> Some(ds), measures |-> Some(ms), filters |-> Some(fs),
      confidence |-> c, field_mapping |-> Some(<<[key |-> "sales", val |-> "total_sales"]>>),
      reasoning |-> Some("because"), uncertain_terms |-> ut, clarifying_questions |-> qs ]

\* names the delegate may answer for an explore: its own fields and invented ones
FirstName(fields) == IF Len(fields) = 0 THEN <<>> ELSE <<fields[1].name>>
DimChoices(d) ==
    {<<>>, FirstName(d.dimensions), FirstName(d.dimensions) \o <<"invented_dim">>}
MeasureChoices(d) == {FirstName(d.measures), <<"invented_measure">>}
FilterChoices(d) ==
    {<<>>, [i \in 1..Len(FirstName(d.dimensions)) |->
               [key |-> FirstName(d.dimensions)[i], val |-> "x"]],
     <<[key |-> "invented_filter", val |-> "x"]>>}

SelectFieldsReplies(d) ==
    {Raised, Text({})}
    \cup {Json(FieldsObj(ds, ms, fs, Some(c), None, None)) :
            ds \in DimChoices(d), ms \in MeasureChoices(d), fs \in FilterChoices(d),
            c \in LLMConf}
    \cup {Json(FieldsObj(FirstName(d.dimensions), FirstName(d.measures), <<>>,
                         None, None, None))}
    \cup {Json(FieldsObj(FirstName(d.dimensions), FirstName(d.measures), <<>>, Some(c),
                         Some(<<"margin">>), Some(qs))) :
            c \in LLMConf,
            qs \in {<<"Did you mean revenue?">>,
                    <<"Did you mean revenue?", "Which period?">>}}

SelectFieldsRepliesBasic(d) ==
    { Json(FieldsObj(FirstName(d.dimensions), FirstName(d.measures), <<>>,
                     Some(80), None, None)),
      Json(FieldsObj(FirstName(d.dimensions), FirstName(d.measures), <<>>,
                     Some(79), None, None)) }

QueryOutcomes == {"ok", "error"}

\* the field names a reply to select_fields carries
ReplyNames(reply) ==
    IF reply.raised \/ ~JsonDecodes(reply.content) THEN {}
    ELSE Range(GetOr(reply.content.obj.dimensions, <<>>))
         \cup Range(GetOr(reply.content.obj.measures, <<>>))
         \cup DictKeys(GetOr(reply.content.obj.filters, <<>>))

-----------------------------------------------------------------------------
(* The state machine                                                       *)

NoResponse == [returned |-> FALSE, text |-> None]

InitWith(B) ==
    /\ backend \in B
    /\ session = create_initial_state
    /\ last_trace = <<>>
    /\ response = NoResponse
    /\ st = create_initial_state
    /\ pc = "idle"
    /\ faults = {}
    /\ tool_calls = <<>>
    /\ invokes = 0
    /\ path = <<>>
    /\ upd_keys = {}
    /\ gate = None
    /\ start_loaded = FALSE
    /\ disc_failed = FALSE
    /\ first_schema = None
    /\ turns = 0
    /\ reply_names = {}
    /\ last_reply = None
    /\ cleared = FALSE
    /\ probe = None
    /\ adapter = None
    /\ other = None
    /\ proc = None
    /\ main = None
    /\ deploy = None

\* a node ran: the reducer applies its update and the graph moves on
Ran(node, update, next) ==
    /\ st' = ApplyUpdate(st, update)
    /\ path' = Append(path, node)
    /\ upd_keys' = DOMAIN update
    /\ pc' = next

\* ChatSession.chat up to the graph invocation (cli.py lines 58-73)
chat_start(limit, utterances) ==
    /\ pc = "idle"
    /\ turns < limit
    /\ \E u \in utterances :
         LET messages == Append(session.messages, [role |-> "user", content |-> u])
             input_state == [session EXCEPT !.messages = messages,
                                            !.current_query = Some(u),
                                            !.final_response = None,
                                            !.error = None]
         IN  /\ st' = input_state
             /\ start_loaded' = input_state.schema_loaded
    /\ pc' = "discover_project"
    /\ turns' = turns + 1
    /\ faults' = {}
    /\ tool_calls' = <<>>
    /\ invokes' = 0
    /\ path' = <<>>
    /\ upd_keys' = {}
    /\ gate' = None
    /\ disc_failed' = FALSE
    /\ reply_names' = {}
    /\ last_reply' = None
    /\ UNCHANGED <<main, deploy, adapter, other, proc, probe, backend, session, last_trace, response, first_schema, cleared>>

discover_project(fault_sets) ==
    /\ pc = "discover_project"
    /\ \E F \in (IF st.schema_loaded THEN {{}} ELSE fault_sets) :
         LET r == discover_project_node(st, backend, F)
         IN  /\ Ran("discover_project", r.update, "classify_intent")
             /\ faults' = F
             /\ tool_calls' = tool_calls \o r.calls
             /\ disc_failed' = ("error" \in DOMAIN r.update)
    /\ last_reply' = None
    /\ UNCHANGED <<main, deploy, adapter, other, proc, probe, backend, session, last_trace, response, invokes, gate,
                   start_loaded, first_schema, turns, reply_names, cleared>>

\* the count mutated: a node that asked asks a second time
InvokedWithRetry(r) == invokes' = IF r.invoked THEN invokes + 2 ELSE invokes

Invoked(r) == invokes' = IF r.invoked THEN invokes + 1 ELSE invokes

classify_intent(replies) ==
    /\ pc = "classify_intent"
    /\ \E reply \in replies :
         LET r == classify_intent_node(st, reply)
         IN  /\ Ran("classify_intent", r.update,
                    IntentEdge(route_by_intent(ApplyUpdate(st, r.update))))
             /\ Invoked(r)
             /\ last_reply' = IF r.invoked THEN Some(reply) ELSE None
    /\ UNCHANGED <<main, deploy, adapter, other, proc, probe, backend, session, last_trace, response, faults, tool_calls, gate,
                   start_loaded, disc_failed, first_schema, turns, reply_names, cleared>>

select_model(replies) ==
    /\ pc = "select_model"
    /\ \E reply \in replies :
         LET r == select_model_node(st, reply)
         IN  /\ Ran("select_model", r.update, "select_fields")
             /\ Invoked(r)
             /\ last_reply' = IF r.invoked THEN Some(reply) ELSE None
    /\ UNCHANGED <<main, deploy, adapter, other, proc, probe, backend, session, last_trace, response, faults, tool_calls, gate,
                   start_loaded, disc_failed, first_schema, turns, reply_names, cleared>>

\* the explore the prompt of select_fields is built from, if the node gets that far
ChosenExplore(state) ==
    IF IsNone(state.project_schema) \/ IsNone(state.field_selection) THEN None
    ELSE LET k == ExploreKey(Get(state.field_selection).model,
                             Get(state.field_selection).explore)
         IN  IF DictHas(SchemaExplores(state), k)
             THEN Some(DictVal(SchemaExplores(state), k)) ELSE None

select_fields(rich) ==
    /\ pc = "select_fields"
    /\ \E reply \in (IF IsNone(ChosenExplore(st)) THEN {Raised}
                     ELSE IF rich THEN SelectFieldsReplies(Get(ChosenExplore(st)))
                     ELSE SelectFieldsRepliesBasic(Get(ChosenExplore(st)))) :
         LET r == select_fields_node(st, reply)
         IN  /\ Ran("select_fields", r.update, "confidence_check")
             /\ Invoked(r)
             /\ last_reply' = IF r.invoked THEN Some(reply) ELSE None
             /\ reply_names' = IF r.invoked THEN ReplyNames(reply) ELSE {}
    /\ UNCHANGED <<main, deploy, adapter, other, proc, probe, backend, session, last_trace, response, faults, tool_calls, gate,
                   start_loaded, disc_failed, first_schema, turns, cleared>>

confidence_check ==
    /\ pc = "confidence_check"
    /\ LET u == confidence_check_node(st)
       IN  Ran("confidence_check", u,
               ConfidenceEdge(route_by_confidence(ApplyUpdate(st, u))))
    /\ gate' = Some([confidence |-> st.confidence,
                     needs_clarification |-> st.needs_clarification])
    /\ last_reply' = None
    /\ UNCHANGED <<main, deploy, adapter, other, proc, probe, backend, session, last_trace, response, faults, tool_calls, invokes,
                   start_loaded, disc_failed, first_schema, turns, reply_names, cleared>>

ask_clarify ==
    /\ pc = "ask_clarify"
    /\ Ran("ask_clarify", ask_clarify_node(st), "format_response")
    /\ last_reply' = None
    /\ UNCHANGED <<main, deploy, adapter, other, proc, probe, backend, session, last_trace, response, faults, tool_calls, invokes,
                   gate, start_loaded, disc_failed, first_schema, turns, reply_names, cleared>>

generate_sql ==
    /\ pc = "generate_sql"
    /\ \E outcome \in QueryOutcomes :
         Ran("generate_sql", generate_sql_node(st, outcome), "format_response")
    /\ tool_calls' = Append(tool_calls, "query_sql")
    /\ last_reply' = None
    /\ UNCHANGED <<main, deploy, adapter, other, proc, probe, backend, session, last_trace, response, faults, invokes,
                   gate, start_loaded, disc_failed, first_schema, turns, reply_names, cleared>>

schema_explore ==
    /\ pc = "schema_explore"
    /\ Ran("schema_explore", schema_explore_node(st), "format_response")
    /\ last_reply' = None
    /\ UNCHANGED <<main, deploy, adapter, other, proc, probe, backend, session, last_trace, response, faults, tool_calls, invokes,
                   gate, start_loaded, disc_failed, first_schema, turns, reply_names, cleared>>

field_explain ==
    /\ pc = "field_explain"
    \* the backend of a session names every field, so line 36 does not raise
    /\ "raises" \notin DOMAIN field_explain_node(st)
    /\ Ran("field_explain", field_explain_node(st), "format_response")
    /\ last_reply' = None
    /\ UNCHANGED <<main, deploy, adapter, other, proc, probe, backend, session, last_trace, response, faults, tool_calls, invokes,
                   gate, start_loaded, disc_failed, first_schema, turns, reply_names, cleared>>

format_response ==
    /\ pc = "format_response"
    /\ Ran("format_response", format_response_node(st), "END")
    /\ last_reply' = None
    /\ UNCHANGED <<main, deploy, adapter, other, proc, probe, backend, session, last_trace, response, faults, tool_calls, invokes,
                   gate, start_loaded, disc_failed, first_schema, turns, reply_names, cleared>>

\* the turn is over: nothing of the graph run stays but what chat stored
TurnOver ==
    /\ st' = create_initial_state
    /\ pc' = "idle"
    /\ faults' = {}
    /\ tool_calls' = <<>>
    /\ invokes' = 0
    /\ path' = <<>>
    /\ upd_keys' = {}
    /\ gate' = None
    /\ start_loaded' = FALSE
    /\ disc_failed' = FALSE
    /\ reply_names' = {}
    /\ last_reply' = None
    /\ cleared' = FALSE

\* chat mutated: the whole result of the graph becomes the session state
chat_return_whole_result ==
    /\ pc = "END"
    /\ session' = st
    /\ last_trace' = st.explanation_trace
    /\ response' = [returned |-> TRUE, text |-> st.final_response]
    /\ first_schema' = IF IsNone(first_schema) /\ st.schema_loaded
                       THEN st.project_schema ELSE first_schema
    /\ TurnOver
    /\ UNCHANGED <<main, deploy, adapter, other, proc, probe, backend, turns>>

\* chat mutated: only the newest message is stored
chat_return_newest_message ==
    /\ pc = "END"
    /\ session' = [session EXCEPT !.messages = <<st.messages[Len(st.messages)]>>,
                                  !.project_schema = st.project_schema,
                                  !.schema_loaded = st.schema_loaded]
    /\ last_trace' = st.explanation_trace
    /\ response' = [returned |-> TRUE, text |-> st.final_response]
    /\ first_schema' = IF IsNone(first_schema) /\ st.schema_loaded
                       THEN st.project_schema ELSE first_schema
    /\ TurnOver
    /\ UNCHANGED <<main, deploy, adapter, other, proc, probe, backend, turns>>

\* chat mutated: the session counts as loaded once a turn has run discovery
chat_return_marking_loaded ==
    /\ pc = "END"
    /\ session' = [session EXCEPT !.messages = st.messages,
                                  !.project_schema = st.project_schema,
                                  !.schema_loaded = TRUE]
    /\ last_trace' = st.explanation_trace
    /\ response' = [returned |-> TRUE, text |-> st.final_response]
    /\ first_schema' = IF IsNone(first_schema) /\ st.schema_loaded
                       THEN st.project_schema ELSE first_schema
    /\ TurnOver
    /\ UNCHANGED <<main, deploy, adapter, other, proc, probe, backend, turns>>

\* ChatSession.chat after the graph returned (cli.py lines 75-88)
chat_return ==
    /\ pc = "END"
    /\ session' = [session EXCEPT !.messages = st.messages,
                                  !.project_schema = st.project_schema,
                                  !.schema_loaded = st.schema_loaded]
    /\ last_trace' = st.explanation_trace
    /\ response' = [returned |-> TRUE, text |-> st.final_response]
    /\ first_schema' = IF IsNone(first_schema) /\ st.schema_loaded
                       THEN st.project_schema ELSE first_schema
    /\ TurnOver
    /\ UNCHANGED <<main, deploy, adapter, other, proc, probe, backend, turns>>

\* the nodes whose code may let an exception escape the graph
RaisingNodes == {"generate_sql", "format_response"}

\* chat mutated: the user's message is stored in the session before the graph
\* is run, so a raising invocation leaves it there
chat_raise_storing_message ==
    /\ pc \in RaisingNodes
    /\ session' = [session EXCEPT !.messages = st.messages]
    /\ response' = [returned |-> TRUE, text |-> Some(<<"Error: " \o ToolErrorText>>)]
    /\ TurnOver
    /\ UNCHANGED <<main, deploy, adapter, other, proc, probe, backend, last_trace, first_schema, turns>>

\* ChatSession.chat when the graph invocation raises (cli.py lines 90-91)
chat_raise ==
    /\ pc \in RaisingNodes
    /\ response' = [returned |-> TRUE, text |-> Some(<<"Error: " \o ToolErrorText>>)]
    /\ TurnOver
    /\ UNCHANGED <<main, deploy, adapter, other, proc, probe, backend, session, last_trace, first_schema, turns>>

\* clear_history mutated: the schema cache is reset with the rest
clear_history_and_schema ==
    /\ pc = "idle"
    /\ session' = create_initial_state
    /\ last_trace' = <<>>
    /\ cleared' = TRUE
    /\ UNCHANGED <<main, deploy, adapter, other, proc, probe, backend, response, st, pc, faults, tool_calls, invokes, path,
                   upd_keys, gate, start_loaded, disc_failed, first_schema, turns,
                   reply_names, last_reply>>

\* clear_history mutated: the message history is kept
clear_history_keeping_messages ==
    /\ pc = "idle"
    /\ session' = [create_initial_state EXCEPT
                     !.project_schema = session.project_schema,
                     !.schema_loaded = session.schema_loaded,
                     !.messages = session.messages]
    /\ last_trace' = <<>>
    /\ cleared' = TRUE
    /\ UNCHANGED <<main, deploy, adapter, other, proc, probe, backend, response, st, pc, faults, tool_calls, invokes, path,
                   upd_keys, gate, start_loaded, disc_failed, first_schema, turns,
                   reply_names, last_reply>>

\* ChatSession.clear_history (cli.py lines 107-114)
clear_history ==
    /\ pc = "idle"
    /\ session' = [create_initial_state EXCEPT
                     !.project_schema = session.project_schema,
                     !.schema_loaded = session.schema_loaded]
    /\ last_trace' = <<>>
    /\ cleared' = TRUE
    /\ UNCHANGED <<main, deploy, adapter, other, proc, probe, backend, response, st, pc, faults, tool_calls, invokes, path,
                   upd_keys, gate, start_loaded, disc_failed, first_schema, turns,
                   reply_names, last_reply>>

\* a session of several turns, the delegate answering from the basic replies
Init == InitWith(SmallBackends)

Next ==
    \/ chat_start(MaxTurns, Utterances)
    \/ discover_project(ListingFaults(backend))
    \/ classify_intent(ClassifyRepliesBasic)
    \/ select_model(SelectModelRepliesBasic)
    \/ select_fields(FALSE)
    \/ confidence_check
    \/ ask_clarify
    \/ generate_sql
    \/ schema_explore
    \/ field_explain
    \/ format_response
    \/ chat_return
    \/ chat_raise
    \/ clear_history

Spec == Init /\ [][Next]_vars

\* one turn of a fresh session, the delegate answering anything
InitTurn == InitWith(SmallBackends)

NextTurn ==
    \/ chat_start(1, {"Show me total sales by region"})
    \/ discover_project(ListingFaults(backend))
    \/ classify_intent(ClassifyReplies)
    \/ select_model(SelectModelReplies)
    \/ select_fields(TRUE)
    \/ confidence_check
    \/ ask_clarify
    \/ generate_sql
    \/ schema_explore
    \/ field_explain
    \/ format_response
    \/ chat_return

SpecTurn == InitTurn /\ [][NextTurn]_vars

\* discovery alone, over every backend within the bounds
InitDiscover == InitWith(Backends)

NextDiscover ==
    \/ chat_start(1, {"What data is available?"})
    \/ discover_project(RelevantFaults(backend))

SpecDiscover == InitDiscover /\ [][NextDiscover]_vars

\* a turn up to the classification, over both utterances and every reply
InitClassify == InitWith(SmallBackends)

NextClassify ==
    \/ chat_start(1, Utterances)
    \/ discover_project(ListingFaults(backend))
    \/ classify_intent(ClassifyReplies)

SpecClassify == InitClassify /\ [][NextClassify]_vars

\* route_by_confidence applied to states drawn over every confidence in
\* hundredths, both values of the flag, and other fields set or unset
Confidences == 0..100

RouteInputs ==
    { [create_initial_state EXCEPT !.confidence = c, !.needs_clarification = n,
                                   !.error = err, !.intent = i] :
        c \in Confidences, n \in BOOLEAN,
        err \in {None, Some(ToolErrorText)}, i \in {None, Some("query")} }

InitRoute == InitWith({[models |-> <<>>, explores |-> NoExplores]})

route_probe ==
    /\ pc = "idle"
    /\ \E state \in RouteInputs :
         probe' = Some([state |-> state, out |-> route_by_confidence(state)])
    /\ UNCHANGED <<main, deploy, adapter, other, proc, backend, session, last_trace, response, st, pc,
                   faults, tool_calls, invokes, path, upd_keys, gate, start_loaded,
                   disc_failed, first_schema, turns, reply_names, last_reply, cleared>>

NextRoute == route_probe

SpecRoute == InitRoute /\ [][NextRoute]_vars

-----------------------------------------------------------------------------
(* Properties                                                              *)

\* the field names listed for an explore in the cached schema
KnownFields(detail) ==
    {detail.dimensions[i].name : i \in 1..Len(detail.dimensions)}
    \cup {detail.measures[i].name : i \in 1..Len(detail.measures)}

\* dimensions, measures and filter keys of a field selection
SelectionNames(sel) ==
    Range(sel.dimensions) \cup Range(sel.measures) \cup DictKeys(sel.filters)

\* select_fields has just run against an explore of the cached schema
FieldsSelected == pc = "confidence_check" /\ IsSome(ChosenExplore(st))

\* C1: after select_fields_node completes, whatever the delegate replied,
\* the dimensions, measures and filter keys of field_selection are all field
\* names of the chosen explore in the cached schema.
C1_SelectionWithinExplore ==
    FieldsSelected =>
        SelectionNames(Get(st.field_selection)) \subseteq KnownFields(Get(ChosenExplore(st)))

\* C2: generate_sql runs only in a turn whose state at the confidence check
\* had confidence >= 0.8 and needs_clarification false; a turn whose state
\* there had confidence < 0.8 or needs_clarification true goes to ask_clarify
\* and never runs generate_sql.
C2_GateGuardsMaterialization ==
    /\ (pc = "generate_sql" \/ "generate_sql" \in Range(path)) =>
           /\ IsSome(gate)
           /\ Get(gate).confidence >= 80
           /\ ~Get(gate).needs_clarification
    /\ (IsSome(gate) /\ (Get(gate).confidence < 80 \/ Get(gate).needs_clarification)) =>
           /\ pc = "ask_clarify" \/ "ask_clarify" \in Range(path)
           /\ pc # "generate_sql"
           /\ "generate_sql" \notin Range(path)

\* a turn at the threshold's lower side answered by ask_clarify, no query made
C2_Witness ==
    /\ pc = "END"
    /\ IsSome(gate)
    /\ Get(gate).confidence = 79
    /\ ~Get(gate).needs_clarification
    /\ "ask_clarify" \in Range(path)

\* C3: whenever generate_sql is entered, field_selection is present and its
\* model.explore key is a key of the cached explores mapping.
C3_MaterializationHasExplore ==
    pc = "generate_sql" =>
        /\ IsSome(st.field_selection)
        /\ IsSome(st.project_schema)
        /\ DictHas(SchemaExplores(st),
                   Get(st.field_selection).model \o "." \o Get(st.field_selection).explore)

\* the names of the delegate's reply that are no field of the chosen explore
UnknownReplyNames == reply_names \ KnownFields(Get(ChosenExplore(st)))

\* C4: whenever the delegate's reply to select_fields names a dimension,
\* measure or filter key that is no field of the chosen explore, the name is
\* dropped from the selection, the confidence written is at most 0.3, and
\* the trace records the name as an uncertain term.
C4_UnknownNamesDemoted ==
    (FieldsSelected /\ UnknownReplyNames # {}) =>
        /\ SelectionNames(Get(st.field_selection)) \cap UnknownReplyNames = {}
        /\ st.confidence <= 30
        /\ \A n \in UnknownReplyNames :
             \E i \in 1..Len(st.explanation_trace) :
                /\ st.explanation_trace[i][1] = "Uncertain about"
                /\ n \in Range(st.explanation_trace[i])

DiscoveryTools(calls) == {i \in 1..Len(calls) : calls[i] # "query_sql"}

\* C5: in a turn that starts with schema_loaded true, discover_project_node
\* makes no get_models / get_explores / get_dimensions / get_measures call
\* and returns an empty update, so the turn's project_schema stays the
\* session's.
C5_DiscoveryIdempotent ==
    (start_loaded /\ Len(path) >= 1) =>
        /\ DiscoveryTools(tool_calls) = {}
        /\ path = <<"discover_project">> =>
               /\ upd_keys = {}
               /\ st.schema_loaded
               /\ st.project_schema = session.project_schema

\* discovery has just run a second time in a session that was loaded
C5_Witness ==
    /\ start_loaded
    /\ turns = 2
    /\ path = <<"discover_project">>
    /\ IsSome(st.project_schema)

\* C6: once the session's schema_loaded is true, it stays true and
\* project_schema stays the snapshot of the first successful discovery,
\* whatever turns and clear_history calls follow.
C6_SchemaCacheKept ==
    IsSome(first_schema) =>
        /\ session.schema_loaded
        /\ session.project_schema = first_schema

\* a loaded session after a second turn that raised and a clear_history
C6_Witness ==
    /\ IsSome(first_schema)
    /\ pc = "idle"
    /\ turns = 2
    /\ response.text = Some(<<"Error: " \o ToolErrorText>>)
    /\ session.messages = <<>>
    /\ session.schema_loaded

\* the calls below get_models that discovery made and that threw
ThrownSubFetches ==
    {f \in faults : f.kind = "throw" /\ f.call # CallModels /\ f.call \in Range(tool_calls)}

\* discovery ran on an unloaded session and get_models answered N >= 1 models
ModelsListed ==
    /\ path = <<"discover_project">>
    /\ ~start_loaded
    /\ \A f \in faults : f.call # CallModels
    /\ Len(backend.models) >= 1

\* C7: if a get_explores, get_dimensions or get_measures call throws during
\* discovery while get_models succeeded, discovery still ends with
\* schema_loaded true and a cached schema, and the trace names the failure.
C7_PartialDiscoveryLoads ==
    (ModelsListed /\ ThrownSubFetches # {}) =>
        /\ st.schema_loaded
        /\ IsSome(st.project_schema)
        /\ IsNone(st.error)

RECURSIVE SumExplores(_, _)
SumExplores(b, i) ==
    IF i > Len(b.models) THEN 0
    ELSE Len(b.explores[b.models[i]]) + SumExplores(b, i + 1)

\* the model.explore keys of the backend, in discovery order
RECURSIVE BackendKeys(_, _)
BackendKeys(b, i) ==
    IF i > Len(b.models) THEN <<>>
    ELSE [j \in 1..Len(b.explores[b.models[i]]) |->
             b.models[i] \o "." \o b.explores[b.models[i]][j]]
         \o BackendKeys(b, i + 1)

DistinctKeys(b) ==
    LET ks == BackendKeys(b, 1)
    IN  \A i, j \in 1..Len(ks) : ks[i] = ks[j] => i = j

\* discovery ran on an unloaded session and no tool call failed
DiscoveredCleanly == path = <<"discover_project">> /\ ~start_loaded /\ faults = {}

\* schema_loaded, the models in get_models order, one explore entry per listed explore
CountsMatch ==
    /\ st.schema_loaded
    /\ IsSome(st.project_schema)
    /\ LET schema == Get(st.project_schema)
       IN  /\ [i \in 1..Len(schema.models) |-> schema.models[i].name] = backend.models
           /\ Len(schema.explores) = SumExplores(backend, 1)

\* C8 as stated: for every backend with N models and E_i explores each and
\* no failing tool call, discovery ends with schema_loaded true, N models in
\* get_models order and exactly sum(E_i) explore entries.
C8_CountsForEveryBackend == DiscoveredCleanly => CountsMatch

\* C8 amended: the same for every backend with N >= 1 models whose
\* model.explore keys are pairwise distinct; the explores mapping then has
\* exactly the backend's keys.
C8_CountsForDistinctKeys ==
    (DiscoveredCleanly /\ Len(backend.models) >= 1 /\ DistinctKeys(backend)) =>
        /\ CountsMatch
        /\ [i \in 1..Len(SchemaExplores(st)) |-> SchemaExplores(st)[i].key]
               = BackendKeys(backend, 1)

\* two models sharing an explore name, discovered without a failure
C8_Witness ==
    /\ DiscoveredCleanly
    /\ backend.models = <<"sales", "finance">>
    /\ backend.explores["sales"] = <<"orders", "users">>
    /\ backend.explores["finance"] = <<"orders">>
    /\ Len(SchemaExplores(st)) = 3

\* C9: if get_models throws or returns no models while the schema is not
\* loaded, discover_project_node sets a non-empty error, returns neither
\* schema_loaded nor project_schema, and the schema stays unloaded.
C9_ListingFailureIsFatal ==
    (/\ path = <<"discover_project">>
     /\ ~start_loaded
     /\ Throws(faults, CallModels) \/ Len(backend.models) = 0) =>
        /\ IsSome(st.error)
        /\ Get(st.error) # ""
        /\ ~st.schema_loaded
        /\ IsNone(st.project_schema)
        /\ upd_keys \cap {"schema_loaded", "project_schema"} = {}

\* get_models answered an empty list without failing
C9_Witness ==
    /\ path = <<"discover_project">>
    /\ Len(backend.models) = 0
    /\ faults = {}
    /\ st.error = Some("No models found in Looker")

\* C10: in a turn whose discovery failed, the reasoning delegate is never
\* called and generate_sql is never entered.
C10_FailedDiscoveryShortCircuits ==
    disc_failed =>
        /\ invokes = 0
        /\ pc # "generate_sql"
        /\ "generate_sql" \notin Range(path)

\* the node that ran last in this turn
LastNode == IF Len(path) = 0 THEN "" ELSE path[Len(path)]

\* the delegate answered the last node, and what it answered
Answered == IsSome(last_reply) /\ ~Get(last_reply).raised
FallbackUsed == Answered /\ ~JsonDecodes(Get(last_reply).content)

\* C11: whatever the delegate replied, once classify_intent_node has run on
\* a state with a user message the intent is one of query, schema_overview,
\* explore_details, field_explain, follow_up.
C11_IntentAlwaysValid ==
    LastNode = "classify_intent" =>
        /\ IsSome(st.intent)
        /\ Get(st.intent) \in {"query", "schema_overview", "explore_details",
                               "field_explain", "follow_up"}

\* the state classify_intent_node ran on, and the structured reply that
\* yields the intent and confidence the node wrote
BeforeClassify ==
    [st EXCEPT !.explanation_trace = SubSeq(@, 1, Len(@) - 3)]
StructuredTwin ==
    Json([intent |-> st.intent, confidence |-> Some(st.confidence), reasoning |-> None])

\* C12: when classify_intent_node took its intent from the keyword fallback,
\* the trace it returns differs from the trace it returns for a structured
\* reply with the same intent and confidence.
C12_FallbackMarkedInTrace ==
    (LastNode = "classify_intent" /\ FallbackUsed) =>
        st.explanation_trace #
            classify_intent_node(BeforeClassify, StructuredTwin).update.explanation_trace

\* C13: for "What data is available?" the intent is schema_overview with
\* confidence > 0, whether the reply is structured JSON naming
\* schema_overview or does not parse and the keyword fallback is used.
C13_WhatDataIsSchemaOverview ==
    (/\ LastNode = "classify_intent"
     /\ st.current_query = Some("What data is available?")
     /\ Answered
     /\ \/ FallbackUsed
        \/ Get(last_reply).content.obj.intent = Some("schema_overview")) =>
        /\ st.intent = Some("schema_overview")
        /\ st.confidence > 0

\* the reply select_model_node parsed names no model or no explore
NoModelOrExplore ==
    LET c == Get(last_reply).content
        named(o) == IsSome(o) /\ Get(o) # ""
    IN  \/ ~(c.fmt \in {"fenced", "bare"} /\ c.valid)
        \/ ~named(c.obj.model)
        \/ ~named(c.obj.explore)

\* C14: when the reply select_model_node parsed has no model or no explore
\* (an unparseable reply included), the node returns confidence 0,
\* needs_clarification true and at least one clarifying question and does
\* not set field_selection; it never returns needs_clarification true
\* without a question.
C14_NoModelAsksAQuestion ==
    LastNode = "select_model" =>
        /\ (Answered /\ NoModelOrExplore) =>
               /\ {"confidence", "needs_clarification", "clarifying_questions"}
                      \subseteq upd_keys
               /\ "field_selection" \notin upd_keys
               /\ st.confidence = 0
               /\ st.needs_clarification
        /\ ("needs_clarification" \in upd_keys /\ st.needs_clarification) =>
               /\ "clarifying_questions" \in upd_keys
               /\ IsSome(st.clarifying_questions)
               /\ Len(Get(st.clarifying_questions)) >= 1

\* the delegate answered JSON without model and with an empty question list
C14_Witness ==
    /\ LastNode = "select_model"
    /\ Answered
    /\ JsonDecodes(Get(last_reply).content)
    /\ Get(last_reply).content.obj.model = None
    /\ Get(last_reply).content.obj.clarifying_questions = Some(<<>>)
    /\ st.clarifying_questions = Some(<<GenericModelQuestion>>)

\* C15: route_by_confidence depends on confidence and needs_clarification
\* only: "low" if needs_clarification, else "low" if confidence < 0.8, else
\* "high"; confidence exactly 0.8 without the flag gives "high".
C15_RouteTable ==
    IsSome(probe) =>
        LET state == Get(probe).state
        IN  Get(probe).out =
                IF state.needs_clarification THEN "low"
                ELSE IF state.confidence < 80 THEN "low"
                ELSE "high"

\* confidence exactly 0.8, flag unset, other fields set: routed high
C15_Witness ==
    /\ IsSome(probe)
    /\ Get(probe).state.confidence = 80
    /\ ~Get(probe).state.needs_clarification
    /\ IsSome(Get(probe).state.error)
    /\ Get(probe).out = "high"

\* the lines of the response after its two heading lines
ClarifyBody == SubSeq(Get(st.final_response), 3, Len(Get(st.final_response)))

\* C16: after ask_clarify_node the response holds at least one question:
\* the generic one when clarifying_questions is None or empty, the question
\* itself when there is exactly one, and otherwise a numbered list of all
\* questions in order.
C16_ClarifyAsksSomething ==
    LastNode = "ask_clarify" =>
        /\ IsSome(st.final_response)
        /\ Len(Get(st.final_response)) >= 3
        /\ LET qs == IF IsNone(st.clarifying_questions) THEN <<>>
                     ELSE Get(st.clarifying_questions)
           IN  /\ Len(qs) = 0 =>
                      ClarifyBody =
                          <<"Could you provide more details about what you're looking for?">>
               /\ Len(qs) = 1 => ClarifyBody = <<qs[1]>>
               /\ Len(qs) >= 2 =>
                      /\ Len(ClarifyBody) = Len(qs) + 1
                      /\ \A i \in 1..Len(qs) :
                           ClarifyBody[i + 1] = "  " \o ToString(i) \o ". " \o qs[i]

\* ask_clarify ran without a question list and asked the generic question
C16_Witness ==
    /\ LastNode = "ask_clarify"
    /\ IsNone(st.clarifying_questions)
    /\ Len(Get(st.final_response)) = 3

\* ask_clarify ran on a list of two questions
C16_WitnessEnumerated ==
    /\ LastNode = "ask_clarify"
    /\ IsSome(st.clarifying_questions)
    /\ Len(Get(st.clarifying_questions)) = 2
    /\ Len(Get(st.final_response)) = 5

TerminalNodes == {"generate_sql", "ask_clarify", "schema_explore", "field_explain"}
TerminalRuns == {i \in 1..Len(path) : path[i] \in TerminalNodes}
FormatRuns == {i \in 1..Len(path) : path[i] = "format_response"}

\* C17: a turn runs exactly one of generate_sql, ask_clarify,
\* schema_explore, field_explain, then format_response exactly once, and
\* then ends; a turn that runs ask_clarify never runs generate_sql.
C17_OneResponsePath ==
    /\ Cardinality(TerminalRuns) <= 1
    /\ Cardinality(FormatRuns) <= 1
    /\ pc = "format_response" => LastNode \in TerminalNodes
    /\ FormatRuns # {} => pc = "END"
    /\ pc = "END" =>
           /\ Cardinality(TerminalRuns) = 1
           /\ FormatRuns = {Len(path)}
           /\ TerminalRuns = {Len(path) - 1}
    /\ "ask_clarify" \in Range(path) =>
           pc # "generate_sql" /\ "generate_sql" \notin Range(path)

\* a query turn that ended through ask_clarify and format_response
C17_Witness ==
    /\ pc = "END"
    /\ path = <<"discover_project", "classify_intent", "select_model", "select_fields",
                "confidence_check", "ask_clarify", "format_response">>

\* C18: a turn in which the schema is available ends with a non-empty
\* final_response, whatever failed in classification, model selection,
\* field selection or the query call, and chat returns that response.
C18_LoadedTurnAnswers ==
    /\ (pc = "END" /\ st.schema_loaded) =>
           /\ IsSome(st.final_response)
           /\ Get(st.final_response) # <<>>
    /\ (pc = "idle" /\ response.returned /\ session.schema_loaded) =>
           /\ IsSome(response.text)
           /\ Get(response.text) # <<>>

\* the end of a turn with the schema loaded in which the delegate raised in
\* select_model, so that select_fields found no selection
C18_Witness ==
    /\ pc = "END"
    /\ st.schema_loaded
    /\ IsNone(st.field_selection)
    /\ st.error = Some("Schema or model selection missing")
    /\ IsSome(st.final_response)

\* chat has built the input state and the graph has not run a node yet
TurnStarts == pc = "discover_project" /\ path = <<>>

\* C19: the state handed to the graph at the start of a turn carries
\* project_schema and schema_loaded of the session and has every other
\* per-turn field at its initial value, whatever earlier turns wrote.
C19_TurnStartsClean ==
    TurnStarts =>
        /\ st.project_schema = session.project_schema
        /\ st.schema_loaded = session.schema_loaded
        /\ st.intent = None
        /\ st.field_selection = None
        /\ st.confidence = 0
        /\ st.needs_clarification = FALSE
        /\ st.clarifying_questions = None
        /\ st.generated_sql = None
        /\ st.explanation_trace = <<>>
        /\ st.final_response = None
        /\ st.error = None

\* the second turn starts after a turn that left a trace and a response
C19_Witness ==
    /\ TurnStarts
    /\ turns = 2
    /\ session.schema_loaded
    /\ Len(last_trace) > 0
    /\ IsSome(response.text)
    /\ Len(st.messages) = 2

\* what clear_history must leave: the schema cache and nothing else
ClearedSession(before) ==
    [ messages |-> <<>>,
      project_schema |-> before.project_schema,
      schema_loaded |-> before.schema_loaded,
      current_query |-> None,
      intent |-> None,
      field_selection |-> None,
      confidence |-> 0,
      clarifying_questions |-> None,
      needs_clarification |-> FALSE,
      generated_sql |-> None,
      explanation_trace |-> <<>>,
      final_response |-> None,
      error |-> None ]

\* C20: clear_history keeps project_schema and schema_loaded as they were
\* and sets every other session field, the message history and the stored
\* trace to their initial empty values; if the schema was loaded, the first
\* turn after it makes no discovery call.
C20_ClearKeepsOnlySchema ==
    /\ [][(pc = "idle" /\ pc' = "idle" /\ cleared') =>
             /\ session' = ClearedSession(session)
             /\ last_trace' = <<>>]_vars
    /\ []((cleared /\ pc # "idle" /\ session.schema_loaded) =>
             /\ start_loaded
             /\ DiscoveryTools(tool_calls) = {})

\* discovery has run in the first turn after a clear_history of a loaded session
C20_Witness ==
    /\ cleared
    /\ start_loaded
    /\ path = <<"discover_project">>
    /\ Len(st.messages) = 1
    /\ turns = 2

-----------------------------------------------------------------------------
(* Claims C21 to C30                                                       *)

\* a step in which the graph invocation raised and chat caught it
GraphRaised ==
    /\ pc \in {"generate_sql", "format_response"}
    /\ pc' = "idle"

\* C21: if the graph invocation raises, chat returns a non-empty error text,
\* the session state (messages, project_schema, schema_loaded and the rest)
\* is exactly what it was before the turn, and the session is ready for the
\* next turn: no graph run is left over.
C21_RaiseLeavesSession ==
    [][GraphRaised =>
          /\ session' = session
          /\ response'.returned
          /\ IsSome(response'.text)
          /\ Len(Get(response'.text)) > 0
          /\ Get(response'.text)[1] # ""
          /\ st' = create_initial_state
          /\ path' = <<>>]_vars

\* a turn raised, and the turn after it ran to the end with an answer, from
\* the history the session had before the failed turn plus its own message
C21_Witness ==
    /\ turns = 2
    /\ pc = "END"
    /\ response.text = Some(<<"Error: " \o ToolErrorText>>)
    /\ session.messages = <<>>
    /\ Len(st.messages) >= 1
    /\ st.messages[1].role = "user"
    /\ IsSome(st.final_response)
    /\ IsNone(st.error)

\* a step in which one node of the graph ran
NodeStep == Len(path') = Len(path) + 1

IsPrefix(s, t) == Len(s) <= Len(t) /\ SubSeq(t, 1, Len(s)) = s

\* C22: within one turn the explanation trace only grows: the trace before a
\* node is a prefix of the trace after it, and a node whose update carries
\* no trace (an early return with only an error) leaves the trace as it was.
C22_TraceOnlyGrows ==
    [][NodeStep =>
          /\ IsPrefix(st.explanation_trace, st'.explanation_trace)
          /\ "explanation_trace" \notin upd_keys' =>
                 st'.explanation_trace = st.explanation_trace]_vars

\* select_model returned early with only an error after discovery and the
\* classification had written to the trace
C22_Witness ==
    /\ LastNode = "select_model"
    /\ upd_keys = {"error"}
    /\ Len(st.explanation_trace) >= 2

\* the gate appended its line to a trace that earlier nodes had written
C22_WitnessGrown ==
    /\ LastNode = "confidence_check"
    /\ Len(st.explanation_trace) >= 4

-----------------------------------------------------------------------------
(* adapter.py: the tools bound to the agent that serves an invoke          *)
(* tool_names is None when the argument is left out, Some of a list        *)
(* otherwise; an agent is the list of tools it was created with.           *)

ToolNames == {"get_models", "query"}

\* what MCPToolLoader.load_tools may hand back
ToolLists == SeqsUpTo(ToolNames, 2)

ToolNameArgs ==
    {None, Some(<<>>), Some(<<"get_models">>), Some(<<"query">>),
     Some(<<"query", "get_models">>)}

\* the place of a tool name in Python's string order
ToolRank(t) == IF t = "get_models" THEN 1 ELSE 2

RECURSIVE sorted(_)
sorted(names) ==
    IF Len(names) = 0 THEN <<>>
    ELSE LET least == CHOOSE i \in 1..Len(names) :
                          \A j \in 1..Len(names) :
                              \/ ToolRank(names[i]) < ToolRank(names[j])
                              \/ ToolRank(names[i]) = ToolRank(names[j]) /\ i <= j
             rest == [k \in 1..(Len(names) - 1) |->
                         IF k < least THEN names[k] ELSE names[k + 1]]
         IN  <<names[least]>> \o sorted(rest)

RECURSIVE join(_)
join(names) ==
    IF Len(names) = 0 THEN ""
    ELSE IF Len(names) = 1 THEN names[1]
    ELSE names[1] \o "," \o join(Tail(names))

\* `if tool_names`: None and the empty list are both false
HasToolNames(tool_names) == IsSome(tool_names) /\ Len(Get(tool_names)) > 0

filter_tools(all_tools, tool_names) ==
    SelectSeq(all_tools, LAMBDA t : t \in Range(tool_names))

cache_key(tool_names) ==
    IF HasToolNames(tool_names) THEN join(sorted(Get(tool_names))) ELSE "__all__"

\* the tools a new agent is created with (adapter.py line 100)
agent_tools(all_tools, tool_names) ==
    IF HasToolNames(tool_names)
    THEN filter_tools(all_tools, Get(tool_names))
    ELSE all_tools

\* the agent cache after _get_agent(tool_names)
get_agent(a, tool_names) ==
    IF DictHas(a.agent_cache, cache_key(tool_names))
    THEN a.agent_cache
    ELSE DictPut(a.agent_cache, cache_key(tool_names),
                 agent_tools(a.all_tools, tool_names))

AdapterFrame ==
    UNCHANGED <<main, deploy, other, proc, probe, backend, session, last_trace, response, st, pc,
                faults, tool_calls, invokes, path, upd_keys, gate, start_loaded,
                disc_failed, first_schema, turns, reply_names, last_reply, cleared>>

\* SafeChainAdapter.__init__
adapter_init ==
    /\ adapter = None
    /\ adapter' = Some([ all_tools |-> <<>>, tools_loaded |-> FALSE,
                         agent_cache |-> <<>>, served |-> None ])
    /\ AdapterFrame

load_tools ==
    /\ IsSome(adapter)
    /\ ~Get(adapter).tools_loaded
    /\ \E tools \in ToolLists :
         adapter' = Some([Get(adapter) EXCEPT !.all_tools = tools,
                                              !.tools_loaded = TRUE])
    /\ AdapterFrame

\* SafeChainAdapter.invoke: the agent that serves the call and its tools
adapter_invoke ==
    /\ IsSome(adapter)
    /\ \E tool_names \in ToolNameArgs :
         LET cache == get_agent(Get(adapter), tool_names)
         IN  adapter' =
                 Some([Get(adapter) EXCEPT
                         !.agent_cache = cache,
                         !.served = Some([ tool_names |-> tool_names,
                                           tools |-> DictVal(cache, cache_key(tool_names)) ])])
    /\ AdapterFrame

InitAdapter == InitWith({[models |-> <<>>, explores |-> NoExplores]})

NextAdapter ==
    \/ adapter_init
    \/ load_tools
    \/ adapter_invoke

SpecAdapter == InitAdapter /\ [][NextAdapter]_vars

\* C23: when a node calls the delegate with tool_names=[] (classify.py line
\* 50, select_model.py line 46, select_fields.py line 64), the agent that
\* serves the call has no tools bound.
C23_NoToolsForEmptyList ==
    (IsSome(adapter) /\ IsSome(Get(adapter).served)
        /\ Get(Get(adapter).served).tool_names = Some(<<>>))
    => Get(Get(adapter).served).tools = <<>>

-----------------------------------------------------------------------------
(* Two chat calls of one session in flight at once                         *)
(* chat is a coroutine and ChatSession holds no lock: a second call may be *)
(* entered whenever the first one is suspended inside the graph. The       *)
(* second call is followed through its discover_project node.              *)

OtherFrame ==
    UNCHANGED <<main, deploy, adapter, proc, probe, backend, session, last_trace, response, st, pc,
                faults, tool_calls, invokes, path, upd_keys, gate, start_loaded,
                disc_failed, first_schema, reply_names, last_reply, cleared>>

\* ChatSession.chat entered a second time, up to the graph invocation
chat_start_other(utterances) ==
    /\ pc \notin {"idle", "END"}
    /\ other = None
    /\ \E u \in utterances :
         LET messages == Append(session.messages, [role |-> "user", content |-> u])
             input_state == [session EXCEPT !.messages = messages,
                                            !.current_query = Some(u),
                                            !.final_response = None,
                                            !.error = None]
         IN  other' = Some([st |-> input_state, pc |-> "discover_project",
                            calls |-> <<>>])
    /\ turns' = turns + 1
    /\ OtherFrame

\* discover_project_node run by the second call's graph
discover_project_other(fault_sets) ==
    /\ IsSome(other)
    /\ Get(other).pc = "discover_project"
    /\ \E F \in (IF Get(other).st.schema_loaded THEN {{}} ELSE fault_sets) :
         LET r == discover_project_node(Get(other).st, backend, F)
         IN  other' = Some([st |-> ApplyUpdate(Get(other).st, r.update),
                            pc |-> "classify_intent",
                            calls |-> r.calls])
    /\ UNCHANGED turns
    /\ OtherFrame

InitAsync == InitWith(SmallBackends)

NextAsync ==
    \/ chat_start(1, {"What data is available?"})
    \/ discover_project(ListingFaults(backend))
    \/ classify_intent(ClassifyRepliesBasic)
    \/ select_model(SelectModelRepliesBasic)
    \/ select_fields(FALSE)
    \/ confidence_check
    \/ ask_clarify
    \/ generate_sql
    \/ schema_explore
    \/ field_explain
    \/ format_response
    \/ chat_return
    \/ chat_start_other({"Show me total sales by region"})
    \/ discover_project_other(ListingFaults(backend))

SpecAsync == InitAsync /\ [][NextAsync]_vars

CountCalls(calls, c) == Cardinality({i \in 1..Len(calls) : calls[i] = c})

\* C24: when two turns of the same session are in flight while the schema
\* is not loaded, at most one discovery runs: get_models is called at most
\* once for the two of them.
C24_OneDiscoveryForTwoTurns ==
    (IsSome(other) /\ pc # "idle")
    => CountCalls(tool_calls, CallModels)
         + CountCalls(Get(other).calls, CallModels) <= 1

-----------------------------------------------------------------------------
(* The user interrupts the command loop while a turn is in flight          *)
(* Neither chat (cli.py 71-91) nor the loop of main (236-253) handles a    *)
(* cancellation of the awaited graph: `except Exception` does not catch    *)
(* CancelledError, and an interrupt that reaches the loop's handler prints *)
(* a farewell and breaks. Whichever way the interpreter delivers the       *)
(* interrupt, the loop is left: no response is returned for the turn and   *)
(* the session takes no further input.                                     *)

InFlight == pc \notin {"idle", "END", "exited"}

cancel_turn ==
    /\ InFlight
    /\ pc' = "exited"
    /\ UNCHANGED <<main, deploy, adapter, other, proc, probe, backend, session, last_trace, response, st,
                   faults, tool_calls, invokes, path, upd_keys, gate, start_loaded,
                   disc_failed, first_schema, turns, reply_names, last_reply, cleared>>

InitCancel == InitWith(SmallBackends)

NextCancel ==
    \/ chat_start(MaxTurns, {"Show me total sales by region"})
    \/ discover_project(ListingFaults(backend))
    \/ classify_intent(ClassifyRepliesBasic)
    \/ select_model(SelectModelRepliesBasic)
    \/ select_fields(FALSE)
    \/ confidence_check
    \/ ask_clarify
    \/ generate_sql
    \/ schema_explore
    \/ field_explain
    \/ format_response
    \/ chat_return
    \/ cancel_turn

SpecCancel == InitCancel /\ [][NextCancel]_vars

\* a step that ends a turn whose graph had not reached its end
TurnCutShort == InFlight /\ pc' \in {"idle", "exited"}

\* C25: when the user cancels a turn while an external call is in flight,
\* the turn ends as failed with a "cancelled" error returned to the user,
\* the session keeps the state it had, and it is ready for a further turn.
C25_CancelFailsTurnOnly ==
    [][TurnCutShort =>
          /\ pc' = "idle"
          /\ response'.returned
          /\ response'.text = Some(<<"Error: cancelled">>)
          /\ session' = session]_vars

-----------------------------------------------------------------------------
(* schema_explore_node applied to drawn schemas and queries                *)
(* The cached schema has the shape discover_project_node stores: one model *)
(* listing its explores, and the explores mapping keyed model.explore in   *)
(* the order the backend listed them.  Every explore has D dimensions and  *)
(* M measures.                                                             *)

WideExploreNames == {"orders", "orders_extended", "users"}

ExploreOrders ==
    {es \in SeqsUpTo(WideExploreNames, 2) :
        Len(es) >= 1 /\ (Len(es) = 2 => es[1] # es[2])}

FieldCounts == 0..(ShownFields + 2)

FieldsNamed(prefix, n) ==
    [i \in 1..n |-> [name |-> prefix \o ToString(i), type |-> "string"]]

SchemaOf(m, es, D, M) ==
    [ models |->
        << [ name |-> m, label |-> m,
             explores |-> [i \in 1..Len(es) |->
                             [ name |-> es[i], label |-> es[i], description |-> "",
                               dimension_count |-> D, measure_count |-> M ]] ] >>,
      explores |->
        [i \in 1..Len(es) |->
            [ key |-> m \o "." \o es[i],
              val |-> [ model |-> m, name |-> es[i], label |-> es[i],
                        description |-> "",
                        dimensions |-> FieldsNamed("dim", D),
                        measures |-> FieldsNamed("measure", M) ] ]] ]

ExploreQueries == {"Tell me about orders", "What is in the Users explore?"}

InitExplore == InitWith({[models |-> <<>>, explores |-> NoExplores]})

explore_probe ==
    /\ pc = "idle"
    /\ IsNone(probe)
    /\ \E es \in ExploreOrders, D \in FieldCounts, M \in FieldCounts, q \in ExploreQueries :
         LET state == [create_initial_state EXCEPT
                         !.project_schema = Some(SchemaOf("sales", es, D, M)),
                         !.schema_loaded = TRUE,
                         !.intent = Some("explore_details"),
                         !.current_query = Some(q)]
         IN  probe' = Some([state |-> state, out |-> schema_explore_node(state)])
    /\ UNCHANGED <<main, deploy, adapter, other, proc, backend, session, last_trace, response, st, pc,
                   faults, tool_calls, invokes, path, upd_keys, gate, start_loaded,
                   disc_failed, first_schema, turns, reply_names, last_reply, cleared>>

NextExplore == explore_probe

SpecExplore == InitExplore /\ [][NextExplore]_vars

\* the explores of the schema whose name the query contains, and the lines
\* of the response the node returned
ProbeSchema == Get(Get(probe).state.project_schema)
ProbeQuery == Get(Get(probe).state.current_query)
NamedExplores ==
    {ProbeSchema.explores[i].val.name : i \in 1..Len(ProbeSchema.explores)}
        \cap {n \in WideExploreNames : Contains(lower(ProbeQuery), n)}
ResponseLines == Get(Get(probe).out.final_response)

\* C26: with intent explore_details and a query that contains the name of an
\* explore of the cached schema, schema_explore_node returns a response (no
\* error) that is the detail view of that same explore: its name, then the
\* DIMENSIONS and the MEASURES header; also when another explore's key
\* contains that name as a substring.
C26_DetailViewOfNamedExplore ==
    (IsSome(probe) /\ Cardinality(NamedExplores) = 1)
    => /\ "error" \notin DOMAIN Get(probe).out
       /\ "final_response" \in DOMAIN Get(probe).out
       /\ \A n \in NamedExplores : ResponseLines[1] = "EXPLORE: " \o n
       /\ "DIMENSIONS" \in Range(ResponseLines)
       /\ "MEASURES" \in Range(ResponseLines)

\* a detail view came back; the lines of a section are those after its
\* header up to the blank line before the next header
DetailShown ==
    /\ IsSome(probe)
    /\ "final_response" \in DOMAIN Get(probe).out
    /\ Len(ResponseLines) >= 4
    /\ ResponseLines[4] = "DIMENSIONS"
LineAt(l) == CHOOSE i \in 1..Len(ResponseLines) : ResponseLines[i] = l
DimensionSection ==
    SubSeq(ResponseLines, LineAt("DIMENSIONS") + 1, LineAt("MEASURES") - 2)
MeasureSection ==
    SubSeq(ResponseLines, LineAt("MEASURES") + 1, LineAt("Example queries:") - 2)
MoreMarker(n) == "... and " \o ToString(n) \o " more"

\* a section lists the first min(D, 15) of its D fields in schema order and
\* ends with the marker for D - 15 exactly when D > 15
ListsFirstFifteen(section, fields) ==
    LET D == Len(fields)
        shown == IF D < 15 THEN D ELSE 15
    IN  /\ Len(section) = shown + (IF D > 15 THEN 1 ELSE 0)
        /\ \A i \in 1..shown :
              section[i] = fields[i].name \o " [" \o fields[i].type \o "]"
        /\ D > 15 => section[shown + 1] = MoreMarker(D - 15)
        /\ D <= 15 => \A n \in 1..D : MoreMarker(n) \notin Range(section)

\* C27: for an explore with D dimensions the detail view lists exactly
\* min(D, 15) of them, in the order the schema holds them, and shows the
\* marker "... and N more" exactly when D > 15, with N = D - 15; the same
\* holds for the measures.
C27_FirstFifteenThenCount ==
    DetailShown =>
        /\ ListsFirstFifteen(DimensionSection, ProbeSchema.explores[1].val.dimensions)
        /\ ListsFirstFifteen(MeasureSection, ProbeSchema.explores[1].val.measures)

\* seventeen dimensions: fifteen listed and "... and 2 more"; fifteen
\* measures: all listed and no marker
C27_Witness ==
    /\ DetailShown
    /\ Len(ProbeSchema.explores[1].val.dimensions) = 17
    /\ Len(ProbeSchema.explores[1].val.measures) = 15
    /\ Len(DimensionSection) = 16
    /\ DimensionSection[15] = "dim15 [string]"
    /\ DimensionSection[16] = "... and 2 more"
    /\ Len(MeasureSection) = 15

-----------------------------------------------------------------------------
(* agent.py: LumiAgent.process                                             *)
(* proc holds the locals of one call: iteration, the number of messages    *)
(* built so far, the agent invocations made, what the last invocation      *)
(* gave, and the response once the call has returned.  The message list is *)
(* kept by its length: the loop never reads it back.                       *)

max_iterations == 15

MaxIterationsText == "Reached max iterations. The query may be too complex."

HistoryLengths == {0, 2}

\* what one `await self.agent.ainvoke` may give: an exception with its text,
\* or content (possibly empty) with a number of tool results
AgentResults ==
    {[kind |-> "raise", text |-> t, tools |-> 0] : t \in {"", "timeout"}}
    \cup {[kind |-> "result", text |-> t, tools |-> k] :
              t \in {"", "Here is the answer"}, k \in 0..2}

\* the loop condition mutated: one more pass is allowed
LoopContinuesInclusive(iteration) == iteration <= max_iterations

\* `while iteration < max_iterations`
LoopContinues(iteration) == iteration < max_iterations

ProcessFrame ==
    UNCHANGED <<main, deploy, adapter, other, probe, backend, session, last_trace, response, st, pc,
                faults, tool_calls, invokes, path, upd_keys, gate, start_loaded,
                disc_failed, first_schema, turns, reply_names, last_reply, cleared>>

\* process up to the loop (agent.py lines 442-470)
process_start ==
    /\ proc = None
    /\ \E h \in HistoryLengths :
         proc' = Some([ pos |-> "loop", iteration |-> 0, messages |-> h + 1,
                        invocations |-> 0, last |-> None, response |-> None ])
    /\ ProcessFrame

\* one pass of the loop body (agent.py lines 472-558)
process_iterate ==
    /\ IsSome(proc)
    /\ Get(proc).pos = "loop"
    /\ LoopContinues(Get(proc).iteration)
    /\ \E r \in AgentResults :
         LET p == [Get(proc) EXCEPT !.iteration = @ + 1,
                                    !.invocations = @ + 1,
                                    !.last = Some(r)]
         IN  proc' =
               IF r.kind = "raise"
               THEN Some([p EXCEPT !.pos = "returned",
                                   !.response = Some("Error: " \o r.text)])
               ELSE IF r.tools > 0
               THEN Some([p EXCEPT !.messages =
                             @ + r.tools + (IF r.text # "" THEN 1 ELSE 0)])
               ELSE Some([p EXCEPT !.pos = "returned", !.response = Some(r.text)])
    /\ ProcessFrame

\* the loop condition fails (agent.py lines 560-564)
process_exhausted ==
    /\ IsSome(proc)
    /\ Get(proc).pos = "loop"
    /\ ~LoopContinues(Get(proc).iteration)
    /\ proc' = Some([Get(proc) EXCEPT !.pos = "returned",
                                      !.response = Some(MaxIterationsText)])
    /\ ProcessFrame

InitProcess == InitWith({[models |-> <<>>, explores |-> NoExplores]})

NextProcess ==
    \/ process_start
    \/ process_iterate
    \/ process_exhausted

\* every awaited agent invocation comes back, with a result or an exception
SpecProcess == InitProcess /\ [][NextProcess]_vars /\ WF_vars(NextProcess)

ProcessReturned == IsSome(proc) /\ Get(proc).pos = "returned"

LastResult == Get(Get(proc).last)

ProcessBounded ==
    IsSome(proc) =>
        /\ Get(proc).invocations <= 15
        /\ (IsSome(Get(proc).last) /\ LastResult.kind = "raise") =>
               /\ Get(proc).pos = "returned"
               /\ Get(proc).response = Some("Error: " \o LastResult.text)
               /\ Get(Get(proc).response) # ""
        /\ (Get(proc).invocations = 15 /\ LastResult.kind = "result"
               /\ LastResult.tools > 0 /\ Get(proc).pos = "returned") =>
               Get(proc).response =
                   Some("Reached max iterations. The query may be too complex.")

\* C28: LumiAgent.process always terminates: a call makes at most 15 agent
\* invocations; if the 15th still gives tool results the call returns the
\* fixed non-empty "Reached max iterations" response; an exception raised by
\* the agent ends the loop at once with a non-empty "Error: ..." response.
C28_ProcessTerminates ==
    /\ []ProcessBounded
    /\ IsSome(proc) ~> ProcessReturned

\* fifteen invocations, the last one still with tool results, and the call
\* returned the fixed response
C28_Witness ==
    /\ ProcessReturned
    /\ Get(proc).invocations = 15
    /\ LastResult.kind = "result"
    /\ LastResult.tools > 0
    /\ Get(proc).response = Some(MaxIterationsText)

\* the agent raised on a later pass and the call returned the error text
C28_WitnessRaise ==
    /\ ProcessReturned
    /\ Get(proc).invocations = 3
    /\ LastResult.kind = "raise"
    /\ Get(proc).response = Some("Error: timeout")

\* C29: after classify_intent the graph goes to select_model for the intents
\* query and follow_up, to schema_explore for schema_overview and
\* explore_details, to field_explain for field_explain, to select_model when
\* the intent is missing or unknown, and to select_model whatever the intent
\* when the state carries an error.
C29_RouteAfterClassify ==
    LastNode = "classify_intent" =>
        pc = IF IsSome(st.error) THEN "select_model"
             ELSE IF st.intent \in {Some("query"), Some("follow_up")}
             THEN "select_model"
             ELSE IF st.intent \in {Some("schema_overview"), Some("explore_details")}
             THEN "schema_explore"
             ELSE IF st.intent = Some("field_explain") THEN "field_explain"
             ELSE "select_model"

\* discovery failed, the classifier said schema_overview, and the graph went
\* to select_model all the same
C29_Witness ==
    /\ LastNode = "classify_intent"
    /\ IsSome(st.error)
    /\ st.intent = Some("schema_overview")
    /\ pc = "select_model"

\* no error: explore_details goes to schema_explore, field_explain to
\* field_explain, an intent outside the table to select_model
C29_WitnessExplore ==
    LastNode = "classify_intent" /\ IsNone(st.error)
        /\ st.intent = Some("explore_details") /\ pc = "schema_explore"
C29_WitnessFieldExplain ==
    LastNode = "classify_intent" /\ IsNone(st.error)
        /\ st.intent = Some("field_explain") /\ pc = "field_explain"
C29_WitnessUnknown ==
    LastNode = "classify_intent" /\ IsNone(st.error)
        /\ (IsNone(st.intent) \/ Get(st.intent) \notin Intents)
        /\ pc = "select_model"

\* select_model_node or select_fields_node returned an error in this turn:
\* one of their early returns (whose texts no other node uses), or their
\* except branch, which also writes its line to the trace
SelectNodeFailed ==
    \/ st.error \in {Some("Schema not loaded"), Some("No query to process"),
                     Some("Schema or model selection missing")}
    \/ IsSome(st.error) /\ Len(Get(st.error)) >= 18
          /\ SubSeq(Get(st.error), 1, 18) = "Explore not found:"
    \/ \E i \in 1..Len(st.explanation_trace) :
          st.explanation_trace[i][1] \in {"Model selection error", "Field selection error"}

\* C30: if select_model_node or select_fields_node sets error in a turn, the
\* turn does not go on to generate_sql: a confidence written earlier in the
\* turn cannot carry it through the gate.
C30_SelectionErrorStopsQuery ==
    pc = "generate_sql" => ~SelectNodeFailed

-----------------------------------------------------------------------------
(* Claims C31 to C40                                                       *)

GraphNodes ==
    {"discover_project", "classify_intent", "select_model", "select_fields",
     "confidence_check", "ask_clarify", "generate_sql", "schema_explore",
     "field_explain", "format_response"}

\* every node that is entered also returns: its external calls come back
EveryNodeReturns == \A n \in GraphNodes : []<>(pc # n)

\* one turn in which every node that is entered also returns
SpecTurnFair == InitTurn /\ [][NextTurn]_vars /\ EveryNodeReturns

\* no node runs twice, and the turn starts with discovery and classification
PathInOrder ==
    /\ \A i, j \in 1..Len(path) : path[i] = path[j] => i = j
    /\ Len(path) >= 1 => path[1] = "discover_project"
    /\ Len(path) >= 2 => path[2] = "classify_intent"
    /\ "format_response" \in Range(path) => path[Len(path)] = "format_response"
    /\ pc = "END" => path[Len(path)] = "format_response"

\* C31 as stated: no node repeats, the nodes run in the order discovery,
\* classification, routed branch, format_response, and every turn reaches END
\* after at most six node executions.
C31_TurnEndsWithinSix ==
    /\ [](PathInOrder /\ Len(path) <= 6)
    /\ (pc = "discover_project") ~> (pc = "END")

\* C31 amended: the same with at most seven node executions, the length of
\* the query branch (discover_project, classify_intent, select_model,
\* select_fields, confidence_check, generate_sql or ask_clarify,
\* format_response).
C31_TurnEndsWithinSeven ==
    /\ [](PathInOrder /\ Len(path) <= 7)
    /\ (pc = "discover_project") ~> (pc = "END")

\* a query turn at END after seven nodes
C31_Witness ==
    /\ pc = "END"
    /\ Len(path) = 7
    /\ path[6] = "generate_sql"

AskingNodes == {"classify_intent", "select_model", "select_fields"}

\* C32: in one turn each of classify_intent_node, select_model_node and
\* select_fields_node calls the delegate at most once, also when the reply is
\* malformed or the call throws; a malformed reply degrades to a fallback
\* intent (classification) or to confidence 0 (selection).
C32_NoRetries ==
    /\ invokes <= Cardinality({i \in 1..Len(path) : path[i] \in AskingNodes})
    /\ invokes <= 3
    /\ (LastNode \in {"select_model", "select_fields"} /\ FallbackUsed)
           => st.confidence = 0
    /\ (LastNode = "classify_intent" /\ FallbackUsed)
           => st.intent \in {Some("query"), Some("schema_overview"),
                             Some("explore_details"), Some("field_explain"),
                             Some("follow_up")}

\* the three nodes asked once each, and the reply to select_fields was not
\* JSON: three calls, confidence 0
C32_Witness ==
    /\ LastNode = "select_fields"
    /\ FallbackUsed
    /\ invokes = 3
    /\ st.confidence = 0

\* the delegate raised in select_model and was not asked again
C32_WitnessRaised ==
    /\ LastNode = "select_model"
    /\ IsSome(last_reply) /\ Get(last_reply).raised
    /\ invokes = 2

-----------------------------------------------------------------------------
(* confidence_check_node applied once and twice to drawn states            *)

InitGate == InitWith({[models |-> <<>>, explores |-> NoExplores]})

gate_probe ==
    /\ pc = "idle"
    /\ IsNone(probe)
    /\ \E state \in RouteInputs :
         LET after == ApplyUpdate(state, confidence_check_node(state))
             again == ApplyUpdate(after, confidence_check_node(after))
         IN  probe' = Some([ state |-> state, after |-> after, again |-> again,
                             route_before |-> route_by_confidence(state),
                             route_after |-> route_by_confidence(after) ])
    /\ UNCHANGED <<main, deploy, adapter, other, proc, backend, session, last_trace, response, st, pc,
                   faults, tool_calls, invokes, path, upd_keys, gate, start_loaded,
                   disc_failed, first_schema, turns, reply_names, last_reply, cleared>>

NextGate == gate_probe

SpecGate == InitGate /\ [][NextGate]_vars

\* C33: confidence_check_node writes needs_clarification =
\* (needs_clarification or confidence < 0.8) and changes no field other than
\* needs_clarification and explanation_trace; route_by_confidence answers the
\* same before and after the node; a second application leaves
\* needs_clarification as the first one set it.
C33_GateNormalizesFlag ==
    IsSome(probe) =>
        LET p == Get(probe)
        IN  /\ p.after.needs_clarification =
                   (p.state.needs_clarification \/ p.state.confidence < 80)
            /\ [p.after EXCEPT !.needs_clarification = p.state.needs_clarification,
                               !.explanation_trace = p.state.explanation_trace]
                   = p.state
            /\ p.route_after = p.route_before
            /\ p.again.needs_clarification = p.after.needs_clarification

\* the flag was set with a confidence above the threshold: it stays set,
\* the route is low before and after
C33_Witness ==
    /\ IsSome(probe)
    /\ Get(probe).state.needs_clarification
    /\ Get(probe).state.confidence = 90
    /\ Get(probe).after.needs_clarification
    /\ Get(probe).route_after = "low"
    /\ Len(Get(probe).again.explanation_trace) = 2

\* the object the delegate's last reply decoded to
ReplyObj(r) == parse_field_selection(Get(r).content)

\* C34: on success select_model_node returns a field_selection with the
\* chosen model and explore and empty dimensions, measures and filters;
\* select_fields_node then fills dimensions, measures and filters from the
\* reply and leaves the model and explore of that selection unchanged.
C34_SelectionBuiltInTwoSteps ==
    /\ []((LastNode = "select_model" /\ "field_selection" \in upd_keys) =>
             /\ IsSome(st.field_selection)
             /\ Answered
             /\ Some(Get(st.field_selection).model) = Get(last_reply).content.obj.model
             /\ Some(Get(st.field_selection).explore) = Get(last_reply).content.obj.explore
             /\ Get(st.field_selection).dimensions = <<>>
             /\ Get(st.field_selection).measures = <<>>
             /\ Get(st.field_selection).filters = <<>>)
    /\ [][(pc = "select_fields" /\ "field_selection" \in upd_keys') =>
             /\ Get(st'.field_selection).model = Get(st.field_selection).model
             /\ Get(st'.field_selection).explore = Get(st.field_selection).explore
             /\ Get(st'.field_selection).dimensions =
                    GetOr(ReplyObj(last_reply').dimensions, <<>>)
             /\ Get(st'.field_selection).measures =
                    GetOr(ReplyObj(last_reply').measures, <<>>)
             /\ Get(st'.field_selection).filters =
                    GetOr(ReplyObj(last_reply').filters, <<>>)]_vars

\* select_fields filled a dimension and a measure into the selection that
\* select_model had made for sales.orders
C34_Witness ==
    /\ LastNode = "select_fields"
    /\ "field_selection" \in upd_keys
    /\ Get(st.field_selection).model = "sales"
    /\ Get(st.field_selection).explore = "orders"
    /\ Len(Get(st.field_selection).dimensions) >= 1
    /\ Len(Get(st.field_selection).measures) >= 1

\* the clarifying questions the delegate's last reply carries
RepliedQuestions ==
    IF JsonDecodes(Get(last_reply).content)
    THEN GetOr(Get(last_reply).content.obj.clarifying_questions, <<>>)
    ELSE <<>>

\* C35: select_fields_node sets needs_clarification exactly when the reply
\* carries at least one clarifying question and then passes the list on;
\* with none it sets the flag false and clarifying_questions None.  A reply
\* that does not parse gives confidence 0 and no question, the gate then
\* routes to ask_clarify, and ask_clarify asks the generic question.
C35_QuestionsDriveClarification ==
    /\ (LastNode = "select_fields" /\ Answered) =>
           /\ st.needs_clarification = (Len(RepliedQuestions) > 0)
           /\ st.clarifying_questions =
                  IF Len(RepliedQuestions) > 0 THEN Some(RepliedQuestions) ELSE None
    /\ (LastNode = "select_fields" /\ FallbackUsed) =>
           /\ st.confidence = 0
           /\ ~st.needs_clarification
           /\ IsNone(st.clarifying_questions)
           /\ pc = "confidence_check"
    /\ (LastNode = "confidence_check" /\ Get(gate).confidence = 0) =>
           /\ pc = "ask_clarify"
           /\ st.needs_clarification
    /\ (LastNode = "ask_clarify" /\ IsNone(st.clarifying_questions)) =>
           Get(st.final_response)[3] =
               "Could you provide more details about what you're looking for?"

\* the reply to select_fields did not parse and the turn ended asking the
\* generic question
C35_Witness ==
    /\ pc = "END"
    /\ path[4] = "select_fields"
    /\ "field_selection" \in DOMAIN st /\ IsSome(st.field_selection)
    /\ st.confidence = 0
    /\ path[6] = "ask_clarify"
    /\ IsNone(st.clarifying_questions)
    /\ Get(st.final_response)[3] =
           "Could you provide more details about what you're looking for?"

\* the reply carried a question: the flag is set and the question passed on
C35_WitnessQuestion ==
    /\ LastNode = "select_fields"
    /\ Answered
    /\ Len(RepliedQuestions) > 0
    /\ st.needs_clarification

\* a step in which chat stored the result of a turn that reached END
TurnStored == pc = "END" /\ pc' = "idle"

\* C36: without clear_history the message history is append-only: a turn
\* starts from the stored history plus the user's message, and the history
\* stored after the turn has the history before it as a prefix, the user's
\* message right after it, nothing removed and nothing reordered.
C36_HistoryAppendOnly ==
    /\ [](pc \notin {"idle"} =>
             /\ IsPrefix(session.messages, st.messages)
             /\ Len(st.messages) = Len(session.messages) + 1
             /\ st.messages[Len(st.messages)].role = "user"
             /\ Some(st.messages[Len(st.messages)].content) = st.current_query)
    /\ [][TurnStored =>
             /\ Len(session'.messages) > Len(session.messages)
             /\ SubSeq(session'.messages, 1, Len(session.messages)) = session.messages
             /\ session'.messages[Len(session.messages) + 1] =
                    st.messages[Len(session.messages) + 1]]_vars

\* two turns stored without a clear_history in between: two messages, the
\* first turn's first
C36_Witness ==
    /\ pc = "idle"
    /\ turns = 2
    /\ ~cleared
    /\ Len(session.messages) = 2
    /\ session.messages[1].role = "user"
    /\ session.messages[2].role = "user"

\* C37: a failed discovery does not poison the session: the turn in which
\* discovery set error stores schema_loaded false, no schema and no error;
\* every turn starts with error cleared; a turn that starts unloaded calls
\* get_models again, and loads the schema if the backend lists a model and
\* no call fails.
C37_FailedDiscoveryRetried ==
    /\ [][(TurnStored /\ disc_failed) =>
             /\ ~session'.schema_loaded
             /\ IsNone(session'.project_schema)
             /\ IsNone(session'.error)]_vars
    /\ [](pc = "discover_project" => IsNone(st.error))
    /\ []((Len(path) >= 1 /\ ~start_loaded) =>
             /\ Len(tool_calls) >= 1
             /\ tool_calls[1] = "get_models")
    /\ []((LastNode = "discover_project" /\ ~start_loaded /\ faults = {}
              /\ Len(backend.models) > 0) =>
             /\ st.schema_loaded
             /\ IsSome(st.project_schema)
             /\ IsNone(st.error))

\* the first turn was stored without a schema although the backend lists a
\* model (its discovery failed), and the second turn's discovery loaded it
C37_Witness ==
    /\ turns = 2
    /\ Len(backend.models) > 0
    /\ Len(session.messages) = 1
    /\ ~session.schema_loaded
    /\ LastNode = "discover_project"
    /\ tool_calls[1] = "get_models"
    /\ st.schema_loaded
    /\ IsNone(st.error)

-----------------------------------------------------------------------------
(* Claim C38: field_explain_node over cached schemas                       *)
(* The cached explores hold the field objects get_dimensions and           *)
(* get_measures answered, stored as they came (discover.py lines 78-101).  *)

FieldQueries ==
    { "What is region?", "What is Total Sales?", "Explain the sales measure",
      "What does count mean?", "Tell me about revenue", "What is the field?" }

DimensionLists ==
    { <<>>, DimsOf("orders"), DimsOf("users"),
      <<[type |-> "string"]>>, <<[type |-> "string"]>> \o DimsOf("orders") }

MeasureLists == { <<>>, MeasuresOf("orders"), MeasuresOf("users") }

CachedExplores ==
    { [ key |-> "sales." \o e,
        val |-> [ model |-> "sales", name |-> e, label |-> e, description |-> "",
                  dimensions |-> ds, measures |-> ms ] ] :
        e \in ExploreNames, ds \in DimensionLists, ms \in MeasureLists }

FieldSchemas ==
    { [ models |-> << [name |-> "sales", label |-> "sales", explores |-> <<>>] >>,
        explores |-> es ] :
        es \in { xs \in SeqsUpTo(CachedExplores, 2) :
                    Len(xs) = 2 => xs[1].key # xs[2].key } }

InitField == InitWith({[models |-> <<>>, explores |-> NoExplores]})

field_probe ==
    /\ pc = "idle"
    /\ IsNone(probe)
    /\ \E schema \in FieldSchemas, q \in FieldQueries :
         LET state == [create_initial_state EXCEPT
                         !.project_schema = Some(schema),
                         !.schema_loaded = TRUE,
                         !.intent = Some("field_explain"),
                         !.current_query = Some(q)]
         IN  probe' = Some([state |-> state, out |-> field_explain_node(state)])
    /\ UNCHANGED <<main, deploy, adapter, other, proc, backend, session, last_trace, response, st, pc,
                   faults, tool_calls, invokes, path, upd_keys, gate, start_loaded,
                   disc_failed, first_schema, turns, reply_names, last_reply, cleared>>

NextField == field_probe

SpecField == InitField /\ [][NextField]_vars

\* the fields of the probed schema in lookup order, the term looked up, and
\* the positions of the fields whose lower-cased name contains it
ProbedFields ==
    LET xs == Get(Get(probe).state.project_schema).explores
    IN  Flatten([i \in 1..Len(xs) |->
            [j \in 1..Len(xs[i].val.dimensions) |->
                [ field |-> xs[i].val.dimensions[j], kind |-> "DIMENSION",
                  explore |-> xs[i].val.name ]]
            \o [j \in 1..Len(xs[i].val.measures) |->
                [ field |-> xs[i].val.measures[j], kind |-> "MEASURE",
                  explore |-> xs[i].val.name ]]])
ProbedTerm ==
    BlanksToUnderscores(lower(ExtractFieldName(Get(Get(probe).state.current_query))))
ContainingFields ==
    {i \in 1..Len(ProbedFields) :
        Contains(lower(GetOr(NameOf(ProbedFields[i].field), "")), ProbedTerm)}
FirstContaining == CHOOSE i \in ContainingFields : \A j \in ContainingFields : i <= j
FieldResponse == Get(Get(probe).out.final_response)

\* C38: with the schema loaded field_explain_node does not raise; it answers
\* with the first field, explores in iteration order and dimensions before
\* measures, whose lower-cased name contains the extracted term, and with
\* the "Field not found" response exactly when no field name contains it.
C38_FirstContainingField ==
    IsSome(probe) =>
        /\ "raises" \notin DOMAIN Get(probe).out
        /\ "final_response" \in DOMAIN Get(probe).out
        /\ IF ContainingFields = {}
           THEN IsPrefix("Field not found: ", FieldResponse[1])
           ELSE /\ ~IsPrefix("Field not found: ", FieldResponse[1])
                /\ FieldResponse[1] =
                       ProbedFields[FirstContaining].kind \o ": "
                           \o GetOr(NameOf(ProbedFields[FirstContaining].field), "")
                /\ FieldResponse[2] =
                       "Explore: " \o ProbedFields[FirstContaining].explore

\* the same for the schemas in which every field object has a name
EveryFieldNamed ==
    \A i \in 1..Len(ProbedFields) : IsSome(NameOf(ProbedFields[i].field))
C38_NamedFieldsLookup == IsSome(probe) /\ EveryFieldNamed => C38_FirstContainingField

\* "What does count mean?" finds the dimension country before the measure
\* user_count
C38_FoundByContainment ==
    /\ IsSome(probe)
    /\ ProbedTerm = "count"
    /\ "final_response" \in DOMAIN Get(probe).out
    /\ FieldResponse[1] = "DIMENSION: country"

-----------------------------------------------------------------------------
(* Claim C39: the chat loop of agent.py (main, lines 590-683)              *)

MaxMainTurns == 2

HistoryLimit == 20

MainFrame ==
    UNCHANGED <<deploy, adapter, other, proc, probe, backend, session, last_trace,
                response, st, pc, faults, tool_calls, invokes, path, upd_keys, gate,
                start_loaded, disc_failed, first_schema, turns, reply_names,
                last_reply, cleared>>

UserMessage(content) == [role |-> "user", content |-> content]
AssistantMessage(content) == [role |-> "assistant", content |-> content]
ToolMessage(content) == [role |-> "tool", content |-> content]

\* what input() gives after strip()
MainCommands == {"", "/quit", "/clear", "/Clear", "/skills"}
MainQuestions == {"hello", "What data is available?"}

\* what the passes of process append to its list `messages` after the user
\* message, and the response it returns with: an answer or an error text
\* after any passes, or the fixed text after max_iterations passes that all
\* carried tool results
ProcessRuns ==
    { [appended |-> a, response |-> r] :
        a \in { <<>>, <<ToolMessage("rows")>>,
                <<ToolMessage("rows"), AssistantMessage("Let me look")>>,
                <<ToolMessage("rows"), ToolMessage("")>> },
        r \in {"Here is the answer", "", "Error: timeout"} }
    \cup { [ appended |-> [i \in 1..max_iterations |-> ToolMessage("rows")],
             response |-> MaxIterationsText ] }

\* the history after k turns that each got the answer
RECURSIVE PastTurns(_)
PastTurns(k) ==
    IF k = 0 THEN <<>>
    ELSE PastTurns(k - 1) \o <<UserMessage("hello"), AssistantMessage("Here is the answer")>>

PastTurnCounts == {0, 9, 10}

\* `history = history[-20:]` when it is longer than 20
KeepLast(history) ==
    IF Len(history) > HistoryLimit
    THEN SubSeq(history, Len(history) - HistoryLimit + 1, Len(history))
    ELSE history

\* the update mutated: the list process worked on is stored as the history
updated_history_from_messages(history, messages, user_input, result_response) ==
    KeepLast(messages \o <<AssistantMessage(result_response)>>)

\* lines 650-656: the two appends and the cut
updated_history(history, messages, user_input, result_response) ==
    KeepLast(history \o <<UserMessage(user_input), AssistantMessage(result_response)>>)

\* the loop is entered (line 597), or is looked at after some turns
main_start ==
    /\ IsNone(main)
    /\ \E k \in PastTurnCounts :
         main' = Some([ pos |-> "input", history |-> PastTurns(k), user_input |-> "",
                        turns |-> 0, stored |-> None, used_tools |-> FALSE ])
    /\ MainFrame

\* an empty line or a command (lines 629-645)
main_command ==
    /\ IsSome(main)
    /\ Get(main).pos = "input"
    /\ \E user_input \in MainCommands :
         LET m == [Get(main) EXCEPT !.stored = None, !.user_input = user_input,
                                    !.used_tools = FALSE]
         IN  main' =
               IF user_input = "" THEN Some(m)
               ELSE IF lower(user_input) = "/quit" THEN Some([m EXCEPT !.pos = "quit"])
               ELSE IF lower(user_input) = "/clear" THEN Some([m EXCEPT !.history = <<>>])
               ELSE Some(m)
    /\ MainFrame

\* a question: process works on history + [user message], then the loop
\* stores the turn (lines 647-656)
main_turn ==
    /\ IsSome(main)
    /\ Get(main).pos = "input"
    /\ Get(main).turns < MaxMainTurns
    /\ \E user_input \in MainQuestions, run \in ProcessRuns :
         LET m == Get(main)
             messages == m.history \o <<UserMessage(user_input)>> \o run.appended
         IN  main' = Some([m EXCEPT
                 !.user_input = user_input,
                 !.turns = @ + 1,
                 !.history = updated_history(m.history, messages, user_input,
                                             run.response),
                 !.stored = Some(run.response),
                 !.used_tools = \E i \in 1..Len(messages) : messages[i].role = "tool"])
    /\ MainFrame

InitMain == InitWith({[models |-> <<>>, explores |-> NoExplores]})

NextMain ==
    \/ main_start
    \/ main_command
    \/ main_turn

SpecMain == InitMain /\ [][NextMain]_vars

Alternating(history) ==
    \A i \in 1..Len(history) :
        history[i].role = (IF i % 2 = 1 THEN "user" ELSE "assistant")

\* C39: after every processed turn the history holds at most 20 messages,
\* user and assistant entries alternate, the newest turn is last and no tool
\* message is in it; /clear empties the history.
C39_HistoryAfterTurn ==
    IsSome(main) =>
        LET m == Get(main)
        IN  /\ IsSome(m.stored) =>
                  /\ Len(m.history) <= 20
                  /\ Len(m.history) >= 2
                  /\ Alternating(m.history)
                  /\ m.history[Len(m.history) - 1] = UserMessage(m.user_input)
                  /\ m.history[Len(m.history)] = AssistantMessage(Get(m.stored))
                  /\ \A i \in 1..Len(m.history) : m.history[i].role # "tool"
            /\ (m.pos = "input" /\ lower(m.user_input) = "/clear") => m.history = <<>>

\* a turn in which process put tool messages on its list was stored at the
\* limit: the oldest turn was cut off
C39_Witness ==
    /\ IsSome(main)
    /\ IsSome(Get(main).stored)
    /\ Get(main).used_tools
    /\ Len(Get(main).history) = 20
    /\ Get(main).history[1] = UserMessage("hello")
    /\ Get(main).history[19] = UserMessage("What data is available?")
    /\ Get(main).turns = 2

\* /clear after a stored turn
C39_WitnessClear ==
    /\ IsSome(main)
    /\ Get(main).turns > 0
    /\ lower(Get(main).user_input) = "/clear"
    /\ Get(main).history = <<>>

-----------------------------------------------------------------------------
(* Claim C40: LookMLDeployer.deploy_lookml (augment_poc/git_integration.py) *)

MaxDeploys == 2

DeployFrame ==
    UNCHANGED <<main, adapter, other, proc, probe, backend, session, last_trace,
                response, st, pc, faults, tool_calls, invokes, path, upd_keys, gate,
                start_loaded, disc_failed, first_schema, turns, reply_names,
                last_reply, cleared>>

DeploySteps ==
    << "clone_or_update", "create_branch", "write_lookml_file", "commit_changes",
       "push_branch", "create_pull_request" >>

TableNames == {"orders", "users"}

\* PRResult
Failure(error) ==
    [success |-> FALSE, error |-> Some(error), branch_name |-> None, pr_number |-> None]
Success(branch_name, pr_number) ==
    [success |-> TRUE, error |-> None, branch_name |-> Some(branch_name),
     pr_number |-> pr_number]

\* GitOperations.cleanup: the temporary directory is removed if one is set
cleanup(d) ==
    IF IsSome(d.temp_dir) /\ d.dirs > 0
    THEN [d EXCEPT !.dirs = @ - 1, !.temp_dir = None]
    ELSE d

\* the return mutated: the directory is removed only after a success
deploy_return_keeping_dir(d, result) ==
    [(IF result.success THEN cleanup(d) ELSE d) EXCEPT
        !.pos = "returned", !.result = Some(result)]

\* a return of deploy_lookml, from the body or from the except clause, with
\* the finally clause
deploy_return(d, result) ==
    [cleanup(d) EXCEPT !.pos = "returned", !.result = Some(result)]

\* a step that came back, and a step that raised
StepDone(d, step, next) ==
    [d EXCEPT !.log = Append(@, [step |-> step, ok |-> TRUE]), !.pos = next]
StepRaised(d, step, error) ==
    deploy_return([d EXCEPT !.log = Append(@, [step |-> step, ok |-> FALSE])],
                  Failure(error))

\* LookMLDeployer.__init__: a PR creator exists if a token is configured
deployer_init ==
    /\ IsNone(deploy)
    /\ \E token \in BOOLEAN :
         deploy' = Some([ pr_creator |-> token, pos |-> "idle", calls |-> 0,
                          table_name |-> "", create_pr |-> FALSE, log |-> <<>>,
                          temp_dir |-> None, dirs |-> 0, result |-> None ])
    /\ DeployFrame

\* deploy_lookml is called (lines 363-386)
deploy_lookml ==
    /\ IsSome(deploy)
    /\ Get(deploy).pos \in {"idle", "returned"}
    /\ Get(deploy).calls < MaxDeploys
    /\ \E table_name \in TableNames, create_pr \in BOOLEAN :
         deploy' = Some([Get(deploy) EXCEPT
                            !.pos = "clone_or_update", !.calls = @ + 1,
                            !.table_name = table_name, !.create_pr = create_pr,
                            !.log = <<>>, !.result = None])
    /\ DeployFrame

\* mkdtemp, then git clone into the new directory
clone_or_update ==
    /\ IsSome(deploy)
    /\ Get(deploy).pos = "clone_or_update"
    /\ \E outcome \in {"ok", "mkdtemp failed", "Git command failed: git clone"} :
         LET d == Get(deploy)
             made == [d EXCEPT !.temp_dir = Some("looker_git_"), !.dirs = @ + 1]
         IN  deploy' =
               IF outcome = "ok" THEN Some(StepDone(made, "clone_or_update", "create_branch"))
               ELSE IF outcome = "mkdtemp failed"
               THEN Some(StepRaised(d, "clone_or_update", outcome))
               ELSE Some(StepRaised(made, "clone_or_update", outcome))
    /\ DeployFrame

\* checkout -b, or checkout and pull of a branch that exists
create_branch ==
    /\ IsSome(deploy)
    /\ Get(deploy).pos = "create_branch"
    /\ \E outcome \in {"new", "existing", "Git command failed: git checkout"} :
         deploy' =
           IF outcome \in {"new", "existing"}
           THEN Some(StepDone(Get(deploy), "create_branch", "write_lookml_file"))
           ELSE Some(StepRaised(Get(deploy), "create_branch", outcome))
    /\ DeployFrame

write_lookml_file ==
    /\ IsSome(deploy)
    /\ Get(deploy).pos = "write_lookml_file"
    /\ \E outcome \in {"ok", "Permission denied"} :
         deploy' =
           IF outcome = "ok"
           THEN Some(StepDone(Get(deploy), "write_lookml_file", "commit_changes"))
           ELSE Some(StepRaised(Get(deploy), "write_lookml_file", outcome))
    /\ DeployFrame

commit_changes ==
    /\ IsSome(deploy)
    /\ Get(deploy).pos = "commit_changes"
    /\ \E outcome \in {"ok", "No changes to commit", "Git command failed: git commit"} :
         deploy' =
           IF outcome = "ok"
           THEN Some(StepDone(Get(deploy), "commit_changes", "push_branch"))
           ELSE Some(StepRaised(Get(deploy), "commit_changes", outcome))
    /\ DeployFrame

\* the push; without a PR to create the call returns its success here
push_branch ==
    /\ IsSome(deploy)
    /\ Get(deploy).pos = "push_branch"
    /\ \E outcome \in {"ok", "Git command failed: git push"} :
         LET d == Get(deploy)
             branch_name == "enrichment/" \o d.table_name
         IN  deploy' =
               IF outcome # "ok" THEN Some(StepRaised(d, "push_branch", outcome))
               ELSE IF d.create_pr /\ d.pr_creator
               THEN Some(StepDone(d, "push_branch", "create_pull_request"))
               ELSE Some(deploy_return(StepDone(d, "push_branch", "returning"),
                                       Success(branch_name, None)))
    /\ DeployFrame

\* GitHubPRCreator.create_pull_request answers a PRResult and never raises
create_pull_request ==
    /\ IsSome(deploy)
    /\ Get(deploy).pos = "create_pull_request"
    /\ \E outcome \in {"created", "GitHub API error: 422", "connection refused"} :
         LET d == Get(deploy)
             branch_name == "enrichment/" \o d.table_name
         IN  deploy' =
               IF outcome = "created"
               THEN Some(deploy_return(StepDone(d, "create_pull_request", "returning"),
                                       Success(branch_name, Some(1))))
               ELSE Some(StepRaised(d, "create_pull_request", outcome))
    /\ DeployFrame

InitDeploy == InitWith({[models |-> <<>>, explores |-> NoExplores]})

NextDeploy ==
    \/ deployer_init
    \/ deploy_lookml
    \/ clone_or_update
    \/ create_branch
    \/ write_lookml_file
    \/ commit_changes
    \/ push_branch
    \/ create_pull_request

SpecDeploy == InitDeploy /\ [][NextDeploy]_vars

StepsRun == [i \in 1..Len(Get(deploy).log) |-> Get(deploy).log[i].step]
StepFailed == \E i \in 1..Len(Get(deploy).log) : ~Get(deploy).log[i].ok
DeployReturned == IsSome(deploy) /\ Get(deploy).pos = "returned"

\* C40: the steps of a deploy_lookml call run in the order clone/update,
\* create branch, write file, commit, push, create pull request; a step that
\* fails is the last one run and the call returns PRResult(success=False);
\* the pull request step runs only after a push that succeeded; and when the
\* call has returned, whatever the outcome, no temporary directory is left.
C40_DeployStepsInOrder ==
    IsSome(deploy) =>
        LET d == Get(deploy)
        IN  /\ IsPrefix(StepsRun, DeploySteps)
            /\ \A i \in 1..Len(d.log) : ~d.log[i].ok => i = Len(d.log)
            /\ StepFailed =>
                  /\ d.pos = "returned"
                  /\ IsSome(d.result)
                  /\ ~Get(d.result).success
            /\ d.pos \in {"idle", "returned"} \cup Range(DeploySteps)
            /\ d.pos = "returned" => IsSome(d.result)
            /\ (\E i \in 1..Len(d.log) : d.log[i].step = "create_pull_request") =>
                  \E j \in 1..Len(d.log) : d.log[j] = [step |-> "push_branch", ok |-> TRUE]
            /\ d.pos = "returned" => d.dirs = 0 /\ IsNone(d.temp_dir)

\* a call that failed at the push returned a failure with the directory gone
C40_Witness ==
    /\ DeployReturned
    /\ Len(Get(deploy).log) = 5
    /\ Get(deploy).log[5] = [step |-> "push_branch", ok |-> FALSE]
    /\ ~Get(Get(deploy).result).success
    /\ Get(deploy).dirs = 0

\* a call that created its pull request after all six steps
C40_WitnessPullRequest ==
    /\ DeployReturned
    /\ StepsRun = DeploySteps
    /\ Get(Get(deploy).result).success
    /\ Get(Get(deploy).result).pr_number = Some(1)

====
